---- MODULE Spec2Model ----
(***************************************************************************)
(* Model of the self-updating token manager of rusty-tokens:               *)
(*   src/src/client/implementation/manager_loop/mod.rs  (the loop thread)  *)
(*   src/src/client/implementation/mod.rs               (the facade)       *)
(*   src/src/client/implementation/hypertokenmanager.rs (the HTTP provider)*)
(*   src/src/resource_server/hyperserver.rs             (token info)       *)
(* Time is wall-clock seconds (chrono UTC timestamps, i64); durations      *)
(* handed to thread::sleep are in milliseconds.                            *)
(***************************************************************************)
EXTENDS Integers, Sequences, FiniteSets, TLC

\* ------------------------------------------------------------------ bounds

\* The wall clock is explored from 0 to MaxTime seconds.
MaxTime == 2

\* The access-token provider is called at most MaxCalls times.
MaxCalls == 7

\* The credentials provider fails at most MaxCredFailures times.
MaxCredFailures == 1

\* ------------------------------------------------------- configuration

\* conf.managed_tokens: the names of the configured managed tokens.
managed_tokens == <<"tok_a", "tok_b">>

\* ManagedToken::scopes of each of them.
managed_scopes == <<{"sc_a"}, {"sc_a", "sc_b"}>>

\* The names the consumer thread asks for: a configured one and one that is not.
ConsumerNames == {"tok_b", "other"}

\* A factor is an f32 widened to f64: a dyadic rational num / den.
\* conf.refresh_percentage_threshold = 0.5f32
refresh_percentage_threshold == [num |-> 1, den |-> 2]

\* conf.warning_percentage_threshold = 1.0f32
warning_percentage_threshold == [num |-> 1, den |-> 1]

\* The SelfUpdatingTokenManagerConfig handed to SelfUpdatingTokenManager::new.
ManagerConfig ==
    [managed_tokens |->
         [i \in 1..Len(managed_tokens) |->
             [name |-> managed_tokens[i], scopes |-> managed_scopes[i]]],
     refresh_percentage_threshold |-> refresh_percentage_threshold,
     warning_percentage_threshold |-> warning_percentage_threshold]

\* Seconds of validity (valid_until_utc - time of the answer) an access token
\* of the provider may carry.
Lifetimes == {2, 12}

\* The upper cap of next_update_at: UTC::now().timestamp() + 3600.
NextUpdateCap == 3600

\* query_access_token(token_data, credentials, access_token_provider, 3, None)
QueryAttempts == 3

\* thread::sleep(TDuration::from_secs(1)) after a credentials failure.
CredentialsRetrySleepMs == 1000

\* -------------------------------------------------------------- values

\* TokenResult = Result<Token, TokenError>, as <<kind, value>>.
\* A Token is identified by the number of the provider call that issued it,
\* a RequestAccessTokenError by the number of the provider call that failed.
OkResult(token) == <<"Ok", token>>

NoToken == <<"NoToken", 0>>

RequestErrorResult(err) == <<"RequestError", err>>

IsOk(r) == r[1] = "Ok"

IsRequestError(r) == r[1] = "RequestError"

\* Option<Token> / Option<RequestAccessTokenError>: None
None == 0

\* Mutant of Min: the larger of the two.
Min_Larger(a, b) == IF a <= b THEN b ELSE a

\* std::cmp::min
Min(a, b) == IF a <= b THEN a ELSE b

\* Mutant of Trunc: rounding to the nearest integer.
Trunc_Rounded(num, den) == IF num >= 0 THEN (num \div den) + (IF 2 * (num % den) >= den THEN 1 ELSE 0) ELSE -(((-num) \div den) + (IF 2 * ((-num) % den) >= den THEN 1 ELSE 0))

\* `as i64` of an f64: truncation toward zero of num / den.
Trunc(num, den) == IF num >= 0 THEN num \div den ELSE -((-num) \div den)

VARIABLES
    conf,                   \* the SelfUpdatingTokenManagerConfig in use
    provider_results,       \* `results` of a MultipleAccessTokensProviderMock
    token_results,          \* the test thread's get_token results, in order
    query,                  \* one update_token_data call on the hyper provider
    token_info,             \* one request_token_info call of the resource server
    request,                \* one iron Request on its way through the Chain
    authenticated_user,     \* an AuthenticatedUser asked for scopes
    jwt,                    \* one string handed to PlanbToken::from_str
    credentials,            \* one get_credentials_pair call
    scaled,                 \* one scale_time call
    token_update,           \* one update_token_data call on one TokenData
    clock,                  \* UTC::now().timestamp()
    pc,                     \* position of the loop thread
    managed_token_data,     \* Vec<TokenData>, owned by the loop thread
    token_states_to_update, \* Vec<(&str, TokenResult)>, the staged results
    manager_state,          \* HashMap<String, TokenResult> behind the RwLock
    state_lock,             \* the RwLock of manager_state: "free" | "write"
    stop_requested,         \* the bool behind the stop RwLock
    now,                    \* `now` of the iteration (line 93)
    next_update_at,         \* `next_update_at` of the iteration
    idx,                    \* index of the token the for loop is at
    attempts_left,          \* query_access_token's attempts_left
    last_error,             \* query_access_token's last_error
    applied,                \* how many staged results have been inserted
    sleep_now,              \* the `now` handed to calc_sleep_duration
    sleep_ms,               \* the duration it returned, -1 before the first
    wake_at,                \* the second at which the running sleep ends
    calls,                  \* provider calls made so far
    cred_failures,          \* credentials failures so far
    provider_failed,        \* whether a provider call has failed so far
    outcome,                \* per name, what this iteration did with it
    iterations_after_stop,  \* iterations begun since stop() set the flag
    last_result             \* <<name, result>> of the last get_token call

vars == <<conf, provider_results, token_results, query, token_info, request,
          authenticated_user, jwt, credentials, scaled, token_update,
          provider_failed,
          clock, pc, managed_token_data, token_states_to_update, manager_state,
          state_lock, stop_requested, now, next_update_at, idx, attempts_left,
          last_error, applied, sleep_now, sleep_ms, wake_at, calls,
          cred_failures, outcome, iterations_after_stop, last_result>>

\* What the actions of the loop and of its consumers leave alone.
\* No update_token_data call on the hyper provider is followed.
NoQuery == [pc |-> "none"]

\* No request_token_info call is followed.
NoTokenInfo == [pc |-> "none"]

\* No request is followed through the Chain.
NoRequest == [pc |-> "none"]

\* No AuthenticatedUser is asked.
NoUser == [pc |-> "none"]

\* No string is decoded as a JWT.
NoJwt == [pc |-> "none"]

\* No get_credentials_pair call is followed.
NoCredentials == [pc |-> "none"]

\* No scale_time call is followed.
NoScaled == [pc |-> "none"]

\* No update_token_data call is followed on its own.
NoUpdate == [pc |-> "none"]

\* The calls of the components that are followed on their own.
componentVars == <<request, authenticated_user, jwt, credentials, scaled>>

ComponentsIdle ==
    /\ request = NoRequest
    /\ authenticated_user = NoUser
    /\ jwt = NoJwt
    /\ credentials = NoCredentials
    /\ scaled = NoScaled

otherVars == <<conf, provider_results, token_results, query, token_info,
               token_update, componentVars>>

Names == {conf.managed_tokens[i].name : i \in 1..Len(conf.managed_tokens)}

\* What an iteration did with a name, as <<kind, value>>: "ok" with the token,
\* "fail_valid" / "fail_expired" with the error, "not_due", or "none" so far.
NoOutcome == [n \in Names |-> <<"none", 0>>]

\* ------------------------------------------------------ pure functions

\* Mutant of scale_time: the factor scales `later`, not the time left to it.
scale_time_OfLater(t, later, factor) == Trunc(later * factor.num, factor.den)

\* fn scale_time(now, later, factor): now + ((later - now) as f64 * factor as f64) as i64
scale_time(t, later, factor) == t + Trunc((later - t) * factor.num, factor.den)

\* fn calc_sleep_duration(now, next_update_at) -> TDuration, in milliseconds
calc_sleep_duration(t, next) == IF (next - t) > 0 THEN (next - t) * 1000 ELSE 0

\* Mutant of initialize: the slots start with update_latest one second ahead.
initialize_UpdateLatestAhead(tokens, t) ==
    [i \in 1..Len(tokens) |->
        [token_name |-> tokens[i].name, token |-> None,
         update_latest |-> t + 1, warn_after |-> t, valid_until |-> t,
         scopes |-> tokens[i].scopes]]

\* fn initialize: one TokenData per managed token, all deadlines = t
initialize(tokens, t) ==
    [i \in 1..Len(tokens) |->
        [token_name |-> tokens[i].name, token |-> None,
         update_latest |-> t, warn_after |-> t, valid_until |-> t,
         scopes |-> tokens[i].scopes]]

\* Mutant of update_token_data_with_access_token: the two thresholds change
\* places.
update_token_data_with_access_token_Swapped(now_utc, token_data, access_token, refresh_threshold, warning_threshold) ==
    [token_data EXCEPT
        !.update_latest = scale_time(now_utc, access_token.valid_until,
                                     warning_threshold),
        !.warn_after = scale_time(now_utc, access_token.valid_until,
                                  refresh_threshold),
        !.valid_until = access_token.valid_until,
        !.token = access_token.token]

\* Mutant of update_token_data_with_access_token: the token is not stored.
update_token_data_with_access_token_TokenNotStored(now_utc, token_data, access_token, refresh_threshold, warning_threshold) ==
    [token_data EXCEPT
        !.update_latest = scale_time(now_utc, access_token.valid_until,
                                     refresh_threshold),
        !.warn_after = scale_time(now_utc, access_token.valid_until,
                                  warning_threshold),
        !.valid_until = access_token.valid_until]

\* Mutant of update_token_data_with_access_token: valid_until keeps the value
\* it had.
update_token_data_with_access_token_KeepsValidUntil(now_utc, token_data, access_token, refresh_threshold, warning_threshold) ==
    [token_data EXCEPT
        !.update_latest = scale_time(now_utc, access_token.valid_until,
                                     refresh_threshold),
        !.warn_after = scale_time(now_utc, access_token.valid_until,
                                  warning_threshold),
        !.token = access_token.token]

\* fn update_token_data_with_access_token
update_token_data_with_access_token(now_utc, token_data, access_token, refresh_threshold, warning_threshold) ==
    [token_data EXCEPT
        !.update_latest = scale_time(now_utc, access_token.valid_until,
                                     refresh_threshold),
        !.warn_after = scale_time(now_utc, access_token.valid_until,
                                  warning_threshold),
        !.valid_until = access_token.valid_until,
        !.token = access_token.token]

\* manager_loop, match res { Ok(_) => ... }: what a successful refresh stages
StagedOnSuccess(token_data) ==
    IF token_data.token # None
    THEN <<token_data.token_name, OkResult(token_data.token)>>
    ELSE <<token_data.token_name, NoToken>>

\* Mutant of StagedOnFailure: the error is staged whether or not the token is
\* still valid.
StagedOnFailure_Always(token_data, iteration_now, err) ==
    <<<<token_data.token_name, RequestErrorResult(err)>>>>

\* Mutant of StagedOnFailure: `>=` for `>`, a token expiring at `now` counts
\* as still valid.
StagedOnFailure_OffByOne(token_data, iteration_now, err) ==
    IF token_data.valid_until >= iteration_now
    THEN <<>>
    ELSE <<<<token_data.token_name, RequestErrorResult(err)>>>>

\* Mutant of StagedOnFailure: a failure on an expired token stages Err(NoToken).
StagedOnFailure_NoToken(token_data, iteration_now, err) ==
    IF token_data.valid_until > iteration_now
    THEN <<>>
    ELSE <<<<token_data.token_name, NoToken>>>>

\* manager_loop, match res { Err(err) => ... }: what a failed refresh stages:
\* nothing `if token_data.valid_until > now`, else Err(RequestError(err))
StagedOnFailure(token_data, iteration_now, err) ==
    IF token_data.valid_until > iteration_now
    THEN <<>>
    ELSE <<<<token_data.token_name, RequestErrorResult(err)>>>>

\* Mutant of OnCredentialsError: `break` for `continue`.
OnCredentialsError_Break == "stopped"

\* manager_loop, Err(err) of get_credentials_pair: sleep 1 s and `continue`
OnCredentialsError == "credentials_sleep"

\* Mutant of Insert: entry(..).or_insert(..), an existing entry is kept.
Insert_KeepExisting(map, to_update) ==
    IF to_update[1] \in DOMAIN map THEN map ELSE (to_update[1] :> to_update[2]) @@ map

\* unlocked_manager_state.insert(to_update.0.to_owned(), to_update.1.clone())
Insert(map, to_update) ==
    (to_update[1] :> to_update[2]) @@ map

\* Mutant of get_token: every entry that is not Ok is reported as NoToken.
get_token_ErrorsAsNoToken(map, name) ==
    IF name \in DOMAIN map /\ IsOk(map[name]) THEN map[name] ELSE NoToken

\* Mutant of get_token: a missing entry is reported as a RequestError.
get_token_MissingAsRequestError(map, name) ==
    IF name \in DOMAIN map THEN map[name] ELSE RequestErrorResult(0)

\* SelfUpdatingTokenManager::get_token, on the map it read
get_token(map, name) ==
    IF name \in DOMAIN map THEN map[name] ELSE NoToken

\* Mutant of LockAfterInsert: the write lock is taken per insert and dropped
\* after each.
LockAfterInsert_PerInsert(done, total) == "free"

\* The lock after `done` of `total` inserts: the write guard lives from
\* manager_state.write() to the end of the block around the for loop.
LockAfterInsert(done, total) == "write"

\* Mutant of LockAfterBlock: the write guard outlives the block.
LockAfterBlock_Held == "write"

\* The lock at the end of the block around the inserts: the write guard
\* unlocked_manager_state goes out of scope.
LockAfterBlock == "free"

\* ------------------------------------------------------------- the state

\* SelfUpdatingTokenManager::new: an empty map, stop_requested = false, and the
\* loop thread spawned by start_manager.
InitLoop ==
    /\ clock = 0
    /\ pc = "spawned"
    /\ managed_token_data = <<>>
    /\ token_states_to_update = <<>>
    /\ manager_state = <<>>
    /\ state_lock = "free"
    /\ stop_requested = FALSE
    /\ now = 0
    /\ next_update_at = 0
    /\ idx = 0
    /\ attempts_left = 0
    /\ last_error = None
    /\ applied = 0
    /\ sleep_now = 0
    /\ sleep_ms = -1
    /\ wake_at = 0
    /\ calls = 0
    /\ cred_failures = 0
    /\ provider_failed = FALSE
    /\ outcome = NoOutcome
    /\ iterations_after_stop = 0
    /\ last_result = <<"other", NoToken>>

\* The manager under study: its configuration, and no mock provider and no test
\* thread.
Init ==
    /\ conf = ManagerConfig
    /\ provider_results = <<>>
    /\ token_results = <<>>
    /\ query = NoQuery
    /\ token_info = NoTokenInfo
    /\ token_update = NoUpdate
    /\ ComponentsIdle
    /\ InitLoop

\* The manager before its loop thread runs, with no provider or token-info
\* call followed.
ManagerIdle ==
    /\ conf = ManagerConfig
    /\ provider_results = <<>>
    /\ token_results = <<>>
    /\ query = NoQuery
    /\ token_info = NoTokenInfo
    /\ token_update = NoUpdate
    /\ InitLoop

\* What only the loop thread writes.
loopVars == <<pc, managed_token_data, token_states_to_update, now, next_update_at,
              idx, attempts_left, last_error, applied, sleep_now, sleep_ms,
              wake_at, calls, cred_failures, provider_failed, outcome,
              iterations_after_stop>>

\* What the loop thread shares with the consumers, and the consumers' results.
sharedVars == <<manager_state, state_lock, stop_requested, last_result>>

\* The places at which the loop thread stays for seconds: the provider call
\* inside query_access_token and the two sleeps.
SuspensionPoints == {"for_token", "credentials_sleep", "sleeping"}

\* The wall clock advances while the loop thread is blocked.
Tick ==
    /\ clock < MaxTime
    /\ pc \in SuspensionPoints
    /\ clock' = clock + 1
    /\ UNCHANGED <<otherVars, loopVars, sharedVars>>

\* A new iteration begins at the top of `loop`.
BeginIteration ==
    /\ pc' = "get_credentials"
    /\ wake_at' = 0
    /\ iterations_after_stop' =
          IF stop_requested THEN iterations_after_stop + 1 ELSE iterations_after_stop

\* manager_loop: initialize(&mut v, &conf.managed_tokens), on the spawned thread
Initialize ==
    /\ pc = "spawned"
    /\ managed_token_data' = initialize(conf.managed_tokens, clock)
    /\ BeginIteration
    /\ UNCHANGED <<otherVars, clock, sharedVars, token_states_to_update, now, next_update_at,
                   idx, attempts_left, last_error, applied, sleep_now, sleep_ms,
                   calls, cred_failures, provider_failed, outcome>>

\* Where the for loop over managed_token_data goes after `done` tokens.
AfterToken(done) == IF done >= Len(managed_token_data) THEN "publish" ELSE "for_token"

\* loop top: get_credentials_pair() returns Ok(creds);
\* let now = UTC::now().timestamp();
\* let mut next_update_at = UTC::now().timestamp() + 3600;
GetCredentialsOk ==
    /\ pc = "get_credentials"
    /\ now' = clock
    /\ next_update_at' = clock + NextUpdateCap
    /\ outcome' = NoOutcome
    /\ idx' = 1
    /\ attempts_left' = QueryAttempts
    /\ last_error' = None
    /\ sleep_now' = 0
    /\ sleep_ms' = -1
    /\ pc' = AfterToken(0)
    /\ UNCHANGED <<otherVars, clock, sharedVars, managed_token_data, token_states_to_update,
                   applied, wake_at, calls, cred_failures, provider_failed,
                   iterations_after_stop>>

\* loop top: get_credentials_pair() returns Err:
\* thread::sleep(TDuration::from_secs(1)); continue;
GetCredentialsErr ==
    /\ pc = "get_credentials"
    /\ cred_failures < MaxCredFailures
    /\ cred_failures' = cred_failures + 1
    /\ pc' = OnCredentialsError
    /\ wake_at' = clock + CredentialsRetrySleepMs \div 1000
    /\ next_update_at' = 0
    /\ sleep_now' = 0
    /\ sleep_ms' = -1
    /\ UNCHANGED <<otherVars, clock, sharedVars, managed_token_data, token_states_to_update,
                   now, idx, attempts_left, last_error, applied, calls,
                   provider_failed, outcome, iterations_after_stop>>

\* thread::sleep(TDuration::from_secs(1)) returns; `continue`
CredentialsSleepEnd ==
    /\ pc = "credentials_sleep"
    /\ clock >= wake_at
    /\ BeginIteration
    /\ UNCHANGED <<otherVars, clock, sharedVars, managed_token_data, token_states_to_update,
                   now, next_update_at, idx, attempts_left, last_error, applied,
                   sleep_now, sleep_ms, calls, cred_failures, provider_failed, outcome>>

\* The end of the for body for the token at idx, whose slot is now token_data:
\* next_update_at = min(next_update_at, token_data.update_latest)
EndOfTokenBody(token_data) ==
    /\ next_update_at' = Min(next_update_at, token_data.update_latest)
    /\ idx' = idx + 1
    /\ attempts_left' = QueryAttempts
    /\ last_error' = None
    /\ pc' = AfterToken(idx)

\* Mutant of TokenDue: every token is refreshed in every iteration.
TokenDue_Always == pc = "for_token"

\* `if token_data.update_latest <= now`: update_token_data calls
\* query_access_token(token_data, credentials, access_token_provider, 3, None)
TokenDue == pc = "for_token" /\ managed_token_data[idx].update_latest <= now

\* for token_data: `if token_data.update_latest <= now` is false
TokenNotDue ==
    /\ pc = "for_token"
    /\ ~TokenDue
    /\ outcome' = [outcome EXCEPT ![managed_token_data[idx].token_name] = <<"not_due", 0>>]
    /\ EndOfTokenBody(managed_token_data[idx])
    /\ UNCHANGED <<otherVars, clock, sharedVars, managed_token_data, token_states_to_update,
                   now, applied, sleep_now, sleep_ms, wake_at, calls, cred_failures,
                   provider_failed, iterations_after_stop>>

\* query_access_token: get_access_token returns Ok(res); update_token_data reads
\* UTC::now() and updates the slot; the loop stages Ok(token)
QueryOk(lifetime) ==
    /\ TokenDue
    /\ attempts_left > 0
    /\ calls < MaxCalls
    /\ calls' = calls + 1
    /\ LET access_token == [token |-> calls + 1, valid_until |-> clock + lifetime]
           token_data == update_token_data_with_access_token(
                             clock, managed_token_data[idx], access_token,
                             conf.refresh_percentage_threshold,
                             conf.warning_percentage_threshold)
       IN /\ managed_token_data' = [managed_token_data EXCEPT ![idx] = token_data]
          /\ token_states_to_update' =
                 Append(token_states_to_update, StagedOnSuccess(token_data))
          /\ outcome' = [outcome EXCEPT ![token_data.token_name] = <<"ok", calls + 1>>]
          /\ EndOfTokenBody(token_data)
    /\ UNCHANGED <<otherVars, clock, sharedVars, now, applied, sleep_now, sleep_ms, wake_at,
                   cred_failures, provider_failed, iterations_after_stop>>

\* query_access_token: get_access_token returns Err(err); recurse with
\* attempts_left - 1 and Some(err); at attempts_left == 0 return Err(last_error)
\* to the loop, which stages the error only for an expired token
QueryErr ==
    /\ TokenDue
    /\ attempts_left > 0
    /\ calls < MaxCalls
    /\ calls' = calls + 1
    /\ provider_failed' = TRUE
    /\ IF attempts_left - 1 = 0
       THEN LET token_data == managed_token_data[idx]
            IN /\ token_states_to_update' = token_states_to_update \o
                      StagedOnFailure(token_data, now, calls + 1)
               /\ outcome' = [outcome EXCEPT ![token_data.token_name] =
                      IF token_data.valid_until > now
                      THEN <<"fail_valid", calls + 1>>
                      ELSE <<"fail_expired", calls + 1>>]
               /\ EndOfTokenBody(token_data)
       ELSE /\ last_error' = calls + 1
            /\ attempts_left' = attempts_left - 1
            /\ UNCHANGED <<token_states_to_update, outcome, next_update_at, idx, pc>>
    /\ UNCHANGED <<otherVars, clock, sharedVars, managed_token_data, now, applied, sleep_now,
                   sleep_ms, wake_at, cred_failures, iterations_after_stop>>

\* let mut unlocked_manager_state = manager_state.write().unwrap();
AcquireWrite ==
    /\ pc = "publish"
    /\ state_lock = "free"
    /\ state_lock' = "write"
    /\ applied' = 0
    /\ pc' = "insert"
    /\ UNCHANGED <<otherVars, clock, manager_state, stop_requested, last_result,
                   managed_token_data, token_states_to_update, now, next_update_at,
                   idx, attempts_left, last_error, sleep_now, sleep_ms, wake_at,
                   calls, cred_failures, provider_failed, outcome, iterations_after_stop>>

\* for to_update in &token_states_to_update { unlocked_manager_state.insert(..) }
InsertStaged ==
    /\ pc = "insert"
    /\ applied < Len(token_states_to_update)
    /\ manager_state' = Insert(manager_state, token_states_to_update[applied + 1])
    /\ applied' = applied + 1
    /\ state_lock' = LockAfterInsert(applied + 1, Len(token_states_to_update))
    /\ UNCHANGED <<otherVars, clock, stop_requested, last_result, pc, managed_token_data,
                   token_states_to_update, now, next_update_at, idx, attempts_left,
                   last_error, sleep_now, sleep_ms, wake_at, calls, cred_failures,
                   provider_failed, outcome, iterations_after_stop>>

\* end of the block: the write guard is dropped; token_states_to_update.clear()
ReleaseWrite ==
    /\ pc = "insert"
    /\ applied = Len(token_states_to_update)
    /\ state_lock' = LockAfterBlock
    /\ token_states_to_update' = <<>>
    /\ applied' = 0
    /\ pc' = "check_stop"
    /\ UNCHANGED <<otherVars, clock, manager_state, stop_requested, last_result,
                   managed_token_data, now, next_update_at, idx, attempts_left,
                   last_error, sleep_now, sleep_ms, wake_at, calls, cred_failures,
                   provider_failed, outcome, iterations_after_stop>>

\* let stop = *stop_requested.read(); if stop { break; }
CheckStop ==
    /\ pc = "check_stop"
    /\ stop_requested
    /\ pc' = "stopped"
    /\ now' = 0
    /\ next_update_at' = 0
    /\ outcome' = NoOutcome
    /\ UNCHANGED <<otherVars, clock, sharedVars, managed_token_data, token_states_to_update,
                   idx, attempts_left, last_error, applied, sleep_now, sleep_ms,
                   wake_at, calls, cred_failures, provider_failed, iterations_after_stop>>

\* stop is false: match calc_sleep_duration(UTC::now().timestamp(), next_update_at):
\* as_secs() == 0 starts the next iteration immediately, else thread::sleep
CalcSleep ==
    /\ pc = "check_stop"
    /\ ~stop_requested
    /\ sleep_now' = clock
    /\ sleep_ms' = calc_sleep_duration(clock, next_update_at)
    /\ now' = 0
    /\ outcome' = NoOutcome
    /\ IF calc_sleep_duration(clock, next_update_at) \div 1000 = 0
       THEN BeginIteration
       ELSE /\ pc' = "sleeping"
            /\ wake_at' = clock + calc_sleep_duration(clock, next_update_at) \div 1000
            /\ iterations_after_stop' = iterations_after_stop
    /\ UNCHANGED <<otherVars, clock, sharedVars, managed_token_data, token_states_to_update,
                   next_update_at, idx, attempts_left, last_error, applied, calls,
                   cred_failures, provider_failed>>

\* thread::sleep(duration) returns
Wake ==
    /\ pc = "sleeping"
    /\ clock >= wake_at
    /\ BeginIteration
    /\ UNCHANGED <<otherVars, clock, sharedVars, managed_token_data, token_states_to_update,
                   now, next_update_at, idx, attempts_left, last_error, applied,
                   sleep_now, sleep_ms, calls, cred_failures, provider_failed, outcome>>

\* SelfUpdatingTokenManager::stop: *stop = true
stop ==
    /\ stop_requested' = TRUE
    /\ UNCHANGED <<otherVars, clock, loopVars, manager_state, state_lock, last_result>>

\* A consumer thread calls SelfUpdatingTokenManager::get_token(name): the read
\* lock is granted only while no writer holds the lock.
GetToken(name) ==
    /\ state_lock = "free"
    /\ last_result' = <<name, get_token(manager_state, name)>>
    /\ UNCHANGED <<otherVars, clock, loopVars, manager_state, state_lock, stop_requested>>

Next ==
    \/ Tick
    \/ Initialize
    \/ GetCredentialsOk
    \/ GetCredentialsErr
    \/ CredentialsSleepEnd
    \/ TokenNotDue
    \/ \E lifetime \in Lifetimes : QueryOk(lifetime)
    \/ QueryErr
    \/ AcquireWrite
    \/ InsertStaged
    \/ ReleaseWrite
    \/ CheckStop
    \/ CalcSleep
    \/ Wake
    \/ stop
    \/ \E name \in ConsumerNames : GetToken(name)

Spec == Init /\ [][Next]_vars

\* ------------------------------- the manager under the tests' mock provider

\* 0.6f32 and 0.8f32, the thresholds of test_funs.rs, as dyadic rationals.
ScenarioThresholds ==
    { <<refresh_percentage_threshold, warning_percentage_threshold>>,
      <<[num |-> 10066330, den |-> 16777216],
        [num |-> 13421773, den |-> 16777216]>> }

\* ManagedToken::new("my_token").with_scope("test"), the one managed token of
\* basic_manager_test
my_token == [name |-> "my_token", scopes |-> {"test"}]

\* The managed tokens of a scenario: those of the test, or a second one too.
ScenarioManagedTokens ==
    { <<my_token>>, <<my_token, [name |-> "tok_b", scopes |-> {"sc_a", "sc_b"}]>> }

ScenarioConfig(tokens, refresh_threshold, warning_threshold) ==
    [managed_tokens |-> tokens,
     refresh_percentage_threshold |-> refresh_threshold,
     warning_percentage_threshold |-> warning_threshold]

\* valid_until_utc of a sample access token, in seconds after the start of the
\* test; the tests use 10, 20 and 30.
ScenarioValidUntil == {3, 8, 10, 20, 30}

\* `sample_access_tokens` of the tests: three Ok(AccessToken), token_1..token_3.
SampleAccessTokens == [1..3 -> ScenarioValidUntil]

\* The seconds after its start at which the test thread calls get_token:
\* thread::sleep of 3 s, 5 s and 5 s.
ReadTimes == <<3, 8, 13>>

InitScenario ==
    /\ conf \in {ScenarioConfig(tokens, th[1], th[2]) :
                    tokens \in ScenarioManagedTokens, th \in ScenarioThresholds}
    /\ provider_results \in SampleAccessTokens
    /\ token_results = <<>>
    /\ query = NoQuery
    /\ token_info = NoTokenInfo
    /\ token_update = NoUpdate
    /\ ComponentsIdle
    /\ InitLoop

\* The test thread is about to call get_token.
ReadPending ==
    /\ Len(token_results) < Len(ReadTimes)
    /\ clock = ReadTimes[Len(token_results) + 1]

\* Time passes while both threads sleep: the mock provider answers at once
\* and thread::sleep returns on time.
ScenarioTick ==
    /\ pc = "sleeping"
    /\ clock < wake_at
    /\ clock < ReadTimes[Len(ReadTimes)]
    /\ ~ReadPending
    /\ clock' = clock + 1
    /\ UNCHANGED <<otherVars, loopVars, sharedVars>>

\* MultipleAccessTokensProviderMock::get_access_token, next < results.len()
MockProviderOk ==
    /\ calls < Len(provider_results)
    /\ QueryOk(provider_results[calls + 1] - clock)

\* MultipleAccessTokensProviderMock::get_access_token, past the results:
\* Err(InternalError("error_N"))
MockProviderErr ==
    /\ calls >= Len(provider_results)
    /\ QueryErr

\* let token_result: TokenResult = manager.get_token("my_token");
TestGetToken ==
    /\ ReadPending
    /\ state_lock = "free"
    /\ token_results' = Append(token_results, get_token(manager_state, "my_token"))
    /\ UNCHANGED <<conf, provider_results, query, token_info, token_update, clock,
                   loopVars, sharedVars, componentVars>>

\* manager.stop(), after the third get_token
TestStop ==
    /\ Len(token_results) = Len(ReadTimes)
    /\ ~stop_requested
    /\ stop

NextScenario ==
    \/ ScenarioTick
    \/ Initialize
    \/ GetCredentialsOk
    \/ TokenNotDue
    \/ MockProviderOk
    \/ MockProviderErr
    \/ AcquireWrite
    \/ InsertStaged
    \/ ReleaseWrite
    \/ CheckStop
    \/ CalcSleep
    \/ Wake
    \/ TestGetToken
    \/ TestStop

SpecScenario == InitScenario /\ [][NextScenario]_vars

\* --------------------- one update_token_data call on HyperAccessTokenProvider

\* execute_http_request_with_multiple_attempts(scopes, credentials, 3, None)
HttpAttempts == 3

\* What client.post(..).send() gives: Err(hyper::Error), or a Response with a
\* status and a body that is or is not the JSON of a Plan B token.
HttpResponses ==
    { <<"Response", 200, "token">>, <<"Response", 200, "garbled">>,
      <<"Response", 401, "">>, <<"Response", 500, "">> }

HttpError == <<"Err", 0, "">>

\* A RequestAccessTokenResult, as <<kind, detail>>: the detail of Ok and of
\* ConnectionError is the number of the HTTP request it stems from.
InternalError == <<"InternalError", 0>>

\* Option<RequestAccessTokenError> / Option<RequestAccessTokenResult>: None
NoResult == <<"None", 0>>

ConnectionError(request_no) == <<"ConnectionError", request_no>>

\* fn evaluate_response(response), for the response to request request_no
evaluate_response(response, request_no) ==
    IF response[2] = 200
    THEN IF response[3] = "token"
         THEN <<"Ok", request_no>>
         ELSE <<"ParsingError", request_no>>
    ELSE IF response[2] = 401
         THEN <<"InvalidCredentials", 0>>
         ELSE <<"RequestError", response[2]>>

\* Mutant of HttpLastError: the first connection error is kept.
HttpLastError_KeepFirst(last, err) == IF last = NoResult THEN err ELSE last

\* execute_http_request_with_multiple_attempts: the last_error handed to the
\* next attempt is Some(ConnectionError(format!("{}", err))) of this one
HttpLastError(last, err) == err

\* match last_error { Some(err) => Err(err), None => Err(InternalError(..)) }
LastErrorOrInternal(last) == IF last = NoResult THEN InternalError ELSE last

\* Credentials { id, secret }
Credentials(id, secret) == [id |-> id, secret |-> secret]

\* CredentialsPair { client_credentials, user_credentials }
CredentialsPair(client, user) == [client_credentials |-> client, user_credentials |-> user]

\* The pairs the credentials provider may hand to the loop: those of a client
\* and of a user, alike or not.
CredentialsPairs ==
    { CredentialsPair(client, user) :
          client \in {Credentials("client_id", "client_secret"),
                      Credentials("id", "secret")},
          user \in {Credentials("user_id", "user_secret"),
                    Credentials("id", "secret")} }

\* token_data.scopes: the Vec<Scope> of a managed token
ScopeVecs == {<<>>, <<"sc_a">>, <<"sc_a", "sc_b">>}

RECURSIVE join(_, _)
\* scope_vec.join(sep), as the sequence of the pieces of the string
join(scope_vec, sep) == IF Len(scope_vec) <= 1 THEN scope_vec ELSE <<Head(scope_vec), sep>> \o join(Tail(scope_vec), sep)

\* execute_http_request: the POST it sends, with its Authorization(Basic{..})
\* header, its Content-Type and the pairs of its form-encoded body
execute_http_request(scopes, creds) ==
    [authorization |-> [username |-> creds.user_credentials.id,
                        password |-> creds.user_credentials.secret],
     content_type |-> "application/x-www-form-urlencoded",
     form |-> << <<"grant_type", <<"password">> >>,
                 <<"username", <<creds.client_credentials.id>> >>,
                 <<"password", <<creds.client_credentials.secret>> >>,
                 <<"scope", join(scopes, " ")>> >>]

\* update_token_data: query_access_token(token_data, credentials, provider, 3, None)
InitQuery ==
    /\ conf = ManagerConfig
    /\ provider_results = <<>>
    /\ token_results = <<>>
    /\ token_info = NoTokenInfo
    /\ token_update = NoUpdate
    /\ ComponentsIdle
    /\ InitLoop
    /\ \E scopes \in ScopeVecs, creds \in CredentialsPairs :
          query = [pc |-> "query_access_token", attempts_left |-> QueryAttempts,
                   last_error |-> NoResult, attempts |-> 0,
                   http_last_error |-> NoResult,
                   requests |-> <<>>, call_start |-> 0, provider_calls |-> 0,
                   provider_result |-> NoResult, result |-> NoResult,
                   scopes |-> scopes, credentials |-> creds, sent |-> <<>>]

queryFrame == <<conf, provider_results, token_results, token_info, token_update, clock,
                loopVars, sharedVars, componentVars>>

\* query_access_token, after get_access_token returned res
AfterProviderCall(q, res) ==
    IF res[1] = "Ok"
    THEN [q EXCEPT !.pc = "returned", !.provider_result = res, !.result = res]
    ELSE [q EXCEPT !.pc = "query_access_token", !.provider_result = res,
                   !.attempts_left = q.attempts_left - 1, !.last_error = res]

\* query_access_token: attempts_left == 0
QueryGivesUp ==
    /\ query.pc = "query_access_token"
    /\ query.attempts_left = 0
    /\ query' = [query EXCEPT !.pc = "returned",
                              !.result = LastErrorOrInternal(query.last_error)]
    /\ UNCHANGED queryFrame

\* query_access_token: access_token_provider.get_access_token(..), which is
\* request_access_token
QueryCallsProvider ==
    /\ query.pc = "query_access_token"
    /\ query.attempts_left > 0
    /\ query' = [query EXCEPT !.pc = "execute_http_request",
                              !.attempts = HttpAttempts,
                              !.http_last_error = NoResult,
                              !.call_start = Len(query.requests),
                              !.provider_calls = query.provider_calls + 1,
                              !.provider_result = NoResult]
    /\ UNCHANGED queryFrame

\* execute_http_request_with_multiple_attempts: execute_http_request gives
\* Err(err); sleep 30 ms and go on with attempts - 1
HttpRequestFails ==
    /\ query.pc = "execute_http_request"
    /\ query.attempts > 0
    /\ query' = [query EXCEPT
                    !.sent = Append(query.sent,
                                    execute_http_request(query.scopes,
                                                         query.credentials)),
                    !.requests = Append(query.requests, HttpError),
                    !.attempts = query.attempts - 1,
                    !.http_last_error =
                        HttpLastError(query.http_last_error,
                                      ConnectionError(Len(query.requests) + 1))]
    /\ UNCHANGED queryFrame

\* execute_http_request_with_multiple_attempts: execute_http_request gives
\* Ok(res); request_access_token evaluates the response
HttpRequestAnswered(response) ==
    /\ query.pc = "execute_http_request"
    /\ query.attempts > 0
    /\ query' = AfterProviderCall(
                    [query EXCEPT
                        !.sent = Append(query.sent,
                                        execute_http_request(query.scopes,
                                                             query.credentials)),
                        !.requests = Append(query.requests, response)],
                    evaluate_response(response, Len(query.requests) + 1))
    /\ UNCHANGED queryFrame

\* execute_http_request_with_multiple_attempts: attempts == 0
ProviderGivesUp ==
    /\ query.pc = "execute_http_request"
    /\ query.attempts = 0
    /\ query' = AfterProviderCall(query, LastErrorOrInternal(query.http_last_error))
    /\ UNCHANGED queryFrame

NextQuery ==
    \/ QueryGivesUp
    \/ QueryCallsProvider
    \/ HttpRequestFails
    \/ \E response \in HttpResponses : HttpRequestAnswered(response)
    \/ ProviderGivesUp

SpecQuery == InitQuery /\ [][NextQuery]_vars

\* ------------------- one authenticate call of AuthorizationHyperServer

\* request_token_info_from_url_with_fallback(primary, fallback, 2)
TokenInfoAttempts == 2

\* A JSON value as rustc_serialize's Json, as <<type, value>>; Absent stands for
\* a key the object does not have.
JsonString(s) == <<"string", s>>

JsonNumber(n) == <<"number", n>>

JsonNull == <<"null", 0>>

JsonArray(elements) == <<"array", elements>>

Absent == <<"absent", 0>>

IsJsonString(v) == v[1] = "string"

IsJsonStringArray(v) ==
    /\ v[1] = "array"
    /\ \A i \in 1..Len(v[2]) : IsJsonString(v[2][i])

\* A token-info body: whether it is a JSON object and, if so, what it has
\* under "uid" and under "scope" (other fields are not read).
TokenInfoBody(uid, scope) == [object |-> TRUE, uid |-> uid, scope |-> scope]

\* A body that is not a JSON object (empty, or not JSON at all).
NoJsonObject == [object |-> FALSE, uid |-> Absent, scope |-> Absent]

\* The bodies a token-info endpoint may answer a 200 with: the bodies of the
\* tests of resource_server/mod.rs with "uid" and "scope" present, absent or of
\* another type, and a body that is no object.
TokenInfoBodies ==
    { TokenInfoBody(uid, scope) :
          uid \in {JsonString("my_app"), JsonNull, JsonNumber(1), Absent},
          scope \in {JsonArray(<<JsonString("uid"), JsonString("cn")>>),
                     JsonArray(<<JsonString("uid")>>),
                     JsonArray(<<>>),
                     JsonArray(<<JsonString("uid"), JsonNumber(1)>>),
                     JsonString("uid"), Absent} }
        \union {NoJsonObject}

\* The elements of a sequence, as a set.
Range(seq) == {seq[i] : i \in 1..Len(seq)}

\* AuthenticatedUser { uid: Some(Uid(uid)), scopes }
AuthenticatedUser(uid, scopes) == [uid |-> uid, scopes |-> scopes]

\* What http_client.get(url).send() gives: a Response with a status and a body
\* that is or is not the JSON of an AuthenticatedUser, Err(HError::Io),
\* Err(HError::Uri), or another hyper error. A Response is a 200 with any of
\* the bodies, or another status with a body that is not read.
TokenInfoResponses ==
    { <<"Response", 200, body>> : body \in TokenInfoBodies }
        \union { <<"Response", status, NoJsonObject>> : status \in {400, 401, 500} }

IoError == <<"Io", 0, "">>

UriError == <<"Uri", 0, "">>

OtherError == <<"Other", 0, "">>

\* Result<AuthenticatedUser, AuthorizationServerError>, as <<kind, detail>>
AuthenticatedAs(user) == <<"Ok", user>>

NotAuthenticated == <<"NotAuthenticated", 0>>

TokenInfoUnparsable == <<"TokenInfoUnparsable", 0>>

\* Mutant of Unknown: running out of attempts counts as NotAuthenticated.
Unknown_AsNotAuthenticated == <<"NotAuthenticated", 0>>

\* request_token_info_from_url, attempts_left == 0:
\* Unknown { message: "No response after multiple retries." }
Unknown == <<"Unknown", 0>>

\* From<HError> for AuthorizationServerError
Connection == <<"Connection", 0>>

\* Mutant of from_json: a body without "uid" decodes to a user, too.
from_json_UidOptional(body) == IF body.object /\ body.uid[1] \in {"string", "absent"} /\ IsJsonStringArray(body.scope) THEN AuthenticatedAs(AuthenticatedUser(body.uid[2], {body.scope[2][i][2] : i \in 1..Len(body.scope[2])})) ELSE TokenInfoUnparsable

\* AuthenticatedUser::from_json with Decodable for AuthenticatedUser:
\* read_struct, read_struct_field("uid") as a string, read_struct_field("scope")
\* as a sequence of strings collected into a HashSet; any decoder error becomes
\* TokenInfoUnparsable.
from_json(body) == IF body.object /\ IsJsonString(body.uid) /\ IsJsonStringArray(body.scope) THEN AuthenticatedAs(AuthenticatedUser(body.uid[2], {body.scope[2][i][2] : i \in 1..Len(body.scope[2])})) ELSE TokenInfoUnparsable

\* authenticate(&token): request_token_info, with or without a configured
\* fallback_token_info_url
InitTokenInfo ==
    /\ conf = ManagerConfig
    /\ provider_results = <<>>
    /\ token_results = <<>>
    /\ query = NoQuery
    /\ token_update = NoUpdate
    /\ ComponentsIdle
    /\ InitLoop
    /\ \E fallback \in BOOLEAN :
          token_info = [pc |-> "request_token_info", has_fallback |-> fallback,
                        url |-> "primary", attempts_left |-> TokenInfoAttempts,
                        requests |-> <<>>, response |-> NoResult,
                        result |-> NoResult]

tokenInfoFrame == <<conf, provider_results, token_results, query, token_update, clock,
                    loopVars, sharedVars, componentVars>>

\* Mutant of AttemptsAfterIoError: an IO error uses up all attempts.
AttemptsAfterIoError_NoneLeft(attempts_left_) == 0

\* request_token_info_from_url: Err(HError::Io(..)) => recurse with
\* attempts_left - 1
AttemptsAfterIoError(attempts_left_) == attempts_left_ - 1

\* request_token_info_from_url_with_fallback, after the URL at hand gave Err(err)
AfterUrlError(t, err) ==
    IF t.url = "primary" /\ t.has_fallback
    THEN [t EXCEPT !.url = "fallback", !.attempts_left = TokenInfoAttempts]
    ELSE [t EXCEPT !.pc = "returned", !.result = err]

\* request_token_info_from_url: attempts_left == 0
TokenInfoGivesUp ==
    /\ token_info.pc = "request_token_info"
    /\ token_info.attempts_left = 0
    /\ token_info' = AfterUrlError(token_info, Unknown)
    /\ UNCHANGED tokenInfoFrame

\* Mutant of AfterResponse: a 5xx from the primary URL sends the call to the
\* fallback URL.
AfterResponse_FallbackOnServerError(t, response) ==
    IF response[2] >= 500 /\ t.url = "primary" /\ t.has_fallback
    THEN [t EXCEPT !.url = "fallback", !.attempts_left = TokenInfoAttempts]
    ELSE [t EXCEPT !.response = response, !.pc = "authenticate"]

\* request_token_info_from_url and request_token_info_from_url_with_fallback,
\* after the URL at hand gave a Response: Ok(rsp) => Ok(rsp) in both
AfterResponse(t, response) ==
    [t EXCEPT !.response = response, !.pc = "authenticate"]

\* request_token_info_from_url: Ok(rsp) => Ok(rsp)
TokenInfoAnswered(response) ==
    /\ token_info.pc = "request_token_info"
    /\ token_info.attempts_left > 0
    /\ token_info' = AfterResponse(
                         [token_info EXCEPT
                             !.requests = Append(token_info.requests,
                                                 <<token_info.url, response>>)],
                         response)
    /\ UNCHANGED tokenInfoFrame

\* request_token_info_from_url: Err(HError::Io(io_err))
TokenInfoIoError ==
    /\ token_info.pc = "request_token_info"
    /\ token_info.attempts_left > 0
    /\ token_info' = [token_info EXCEPT
                         !.requests = Append(token_info.requests,
                                             <<token_info.url, IoError>>),
                         !.attempts_left =
                             AttemptsAfterIoError(token_info.attempts_left)]
    /\ UNCHANGED tokenInfoFrame

\* request_token_info_from_url: Err(HError::Uri(..)) and Err(err), both
\* return Err(NotAuthenticated)
TokenInfoOtherError(err) ==
    /\ token_info.pc = "request_token_info"
    /\ token_info.attempts_left > 0
    /\ token_info' = AfterUrlError(
                         [token_info EXCEPT
                             !.requests = Append(token_info.requests,
                                                 <<token_info.url, err>>)],
                         NotAuthenticated)
    /\ UNCHANGED tokenInfoFrame

\* authenticate: match response.status
Authenticate ==
    /\ token_info.pc = "authenticate"
    /\ token_info' = [token_info EXCEPT
                         !.pc = "returned",
                         !.result =
                             IF token_info.response[2] = 200
                             THEN from_json(token_info.response[3])
                             ELSE NotAuthenticated]
    /\ UNCHANGED tokenInfoFrame

NextTokenInfo ==
    \/ TokenInfoGivesUp
    \/ \E response \in TokenInfoResponses : TokenInfoAnswered(response)
    \/ TokenInfoIoError
    \/ \E err \in {UriError, OtherError} : TokenInfoOtherError(err)
    \/ Authenticate

SpecTokenInfo == InitTokenInfo /\ [][NextTokenInfo]_vars

\* ------------------------------------ one request through an iron Chain

\* What the actions of the components followed on their own leave alone of the
\* manager.
managerVars == <<conf, provider_results, token_results, query, token_info,
                 token_update, clock, loopVars, sharedVars>>

\* The Authorization header of a request: none, one of the Bearer scheme, or
\* one of another scheme (headers.get::<Authorization<Bearer>>() is None then).
AuthorizationHeaders == {"none", "bearer", "basic"}

\* What authorization_server.authenticate(token) may return.
AuthenticateResults ==
    { AuthenticatedAs(AuthenticatedUser("uid", {"a", "b"})),
      AuthenticatedAs(AuthenticatedUser("my_app", {})),
      NotAuthenticated, TokenInfoUnparsable, Connection, Unknown }

\* Status::Unauthorized
Unauthorized == 401

\* response.status == None
NoStatus == 0

\* The statuses a handler may set on its Response or on the response of its
\* IronError, NoStatus for none.
HandlerStatuses == {200, 204, Unauthorized, 404, 500, NoStatus}

\* An IronResult<Response>: Ok(response) or Err(IronError) with its response,
\* the status it carries, and who wrote its body.
IronResult(kind, status, body) == [kind |-> kind, status |-> status, body |-> body]

\* IronError::new(NotAuthenticated{..},
\*                HttpErrorObject::new_iron(&Status::Unauthorized)
\*                    .to_iron_response_triplet())
UnauthorizedError == IronResult("Err", Unauthorized, "error_object")

\* HttpErrorObject::new_iron(&Status::Unauthorized).to_iron_json_result():
\* the Unauthorized response with the standard error body, as Ok or as Err
\* (http_error_object decides which).
UnauthorizedJsonResults ==
    { IronResult(kind, Unauthorized, "error_object") : kind \in {"Ok", "Err"} }

\* Option<Token> of before: the token of a Bearer header.
BearerToken(authorization) == IF authorization = "bearer" THEN <<"Some", "token">> ELSE NoResult

\* Status::is_success: 2xx
is_success(status) == status \in 200..299

\* Mutant of before: a failed authenticate lets the request through.
before_FailOpen(token, auth_result) == IF token = NoResult THEN [result |-> UnauthorizedError, user |-> NoResult] ELSE IF auth_result[1] = "Ok" THEN [result |-> IronResult("Ok", NoStatus, "none"), user |-> <<"Some", auth_result[2]>>] ELSE [result |-> IronResult("Ok", NoStatus, "none"), user |-> NoResult]

\* AuthenticateTokenMiddleware::before: what it returns (Ok(()) is an Ok
\* without status or body) and what it inserts under AuthenticatedUserKey.
before(token, auth_result) == IF token = NoResult THEN [result |-> UnauthorizedError, user |-> NoResult] ELSE IF auth_result[1] = "Ok" THEN [result |-> IronResult("Ok", NoStatus, "none"), user |-> <<"Some", auth_result[2]>>] ELSE [result |-> UnauthorizedError, user |-> NoResult]

\* Whether after / catch hand the response on as it is: an Unauthorized one,
\* a successful one, and any other when the request carries a user.
PassesThrough(status, user) ==
    \/ status = Unauthorized
    \/ status # NoStatus /\ is_success(status)
    \/ user # NoResult

\* NotFoundToUnauthorizedWhenNotAuthorizedMiddleware::after: the results it
\* may return for a response of the handler.
after(user, response) == IF PassesThrough(response.status, user) THEN {response} ELSE UnauthorizedJsonResults

\* Mutant of catch: every error is handed on as it is.
catch_HandsOn(user, err) == {err}

\* NotFoundToUnauthorizedWhenNotAuthorizedMiddleware::catch: the results it
\* may return for an IronError.
catch(user, err) == IF PassesThrough(err.status, user) THEN {err} ELSE UnauthorizedJsonResults

\* A request enters a Chain::new(handle) with the after middleware linked and
\* the before middleware linked or not (a route that is not authenticated).
InitMiddleware ==
    /\ ManagerIdle
    /\ authenticated_user = NoUser
    /\ jwt = NoJwt
    /\ credentials = NoCredentials
    /\ scaled = NoScaled
    /\ \E linked \in BOOLEAN, authorization \in AuthorizationHeaders :
          request = [pc |-> "before", linked_before |-> linked,
                     authorization |-> authorization,
                     auth_result |-> NoResult, extensions |-> NoResult,
                     handler_invoked |-> FALSE,
                     incoming |-> IronResult("None", NoStatus, "none"),
                     response |-> IronResult("None", NoStatus, "none")]

middlewareFrame == <<managerVars, authenticated_user, jwt, credentials, scaled>>

\* Chain::continue_from_before, after before returned r: on Ok the handler is
\* next, on Err the handler is skipped and the after middlewares catch.
AfterBefore(req, r) ==
    [req EXCEPT !.extensions = r.user,
                !.response = r.result,
                !.incoming = r.result,
                !.pc = IF r.result.kind = "Ok" THEN "handler" ELSE "catch"]

\* Chain without a before middleware
NoBeforeLinked ==
    /\ request.pc = "before"
    /\ ~request.linked_before
    /\ request' = [request EXCEPT !.pc = "handler"]
    /\ UNCHANGED middlewareFrame

\* before: token is None, authenticate is not called
BeforeWithoutToken ==
    /\ request.pc = "before"
    /\ request.linked_before
    /\ BearerToken(request.authorization) = NoResult
    /\ request' = AfterBefore(request,
                      before(BearerToken(request.authorization), NoResult))
    /\ UNCHANGED middlewareFrame

\* before: token is Some, authenticate returns auth_result
BeforeAuthenticates(auth_result) ==
    /\ request.pc = "before"
    /\ request.linked_before
    /\ BearerToken(request.authorization) # NoResult
    /\ request' = AfterBefore([request EXCEPT !.auth_result = auth_result],
                      before(BearerToken(request.authorization), auth_result))
    /\ UNCHANGED middlewareFrame

\* Chain::continue_from_handler: the handler answers Ok(response) or
\* Err(IronError)
Handle(kind, status) ==
    /\ request.pc = "handler"
    /\ request' = [request EXCEPT
                      !.handler_invoked = TRUE,
                      !.response = IronResult(kind, status, "handler"),
                      !.incoming = IronResult(kind, status, "handler"),
                      !.pc = IF kind = "Ok" THEN "after" ELSE "catch"]
    /\ UNCHANGED middlewareFrame

\* Chain::continue_from_after: after(req, response)
After ==
    /\ request.pc = "after"
    /\ \E result \in after(request.extensions, request.response) :
          request' = [request EXCEPT !.response = result, !.pc = "done"]
    /\ UNCHANGED middlewareFrame

\* Chain::fail_from_after: catch(req, err)
Catch ==
    /\ request.pc = "catch"
    /\ \E result \in catch(request.extensions, request.response) :
          request' = [request EXCEPT !.response = result, !.pc = "done"]
    /\ UNCHANGED middlewareFrame

NextMiddleware ==
    \/ NoBeforeLinked
    \/ BeforeWithoutToken
    \/ \E auth_result \in AuthenticateResults : BeforeAuthenticates(auth_result)
    \/ \E kind \in {"Ok", "Err"}, status \in HandlerStatuses : Handle(kind, status)
    \/ After
    \/ Catch

SpecMiddleware == InitMiddleware /\ [][NextMiddleware]_vars

\* ------------------------------ an AuthenticatedUser asked for scopes

\* The scopes a resource server may ask for.
AskedScopes == {"uid", "cn", "write"}

\* The longest list handed to has_scopes.
MaxScopes == 2

\* The lists of scopes handed to has_scopes: &[Scope] of up to MaxScopes
\* elements.
ScopeLists == UNION { [1..n -> AskedScopes] : n \in 0..MaxScopes }

\* AuthenticatedUser::has_scope
has_scope(user, scope) == scope \in user.scopes

\* Mutant of has_scopes: one of the scopes is enough.
has_scopes_Any(user, scopes) == \E i \in 1..Len(scopes) : has_scope(user, scopes[i])

\* AuthenticatedUser::has_scopes: scopes.iter().all(|scope| self.has_scope(scope))
has_scopes(user, scopes) == \A i \in 1..Len(scopes) : has_scope(user, scopes[i])

\* AuthenticatedUser::authorize: Ok(()) or Err(NotAuthorized) with the uid and
\* the scope in its message
authorize(user, scope) == IF has_scope(user, scope) THEN <<"Ok", 0>> ELSE <<"NotAuthorized", <<user.uid, scope>>>>

\* A token-info body is about to be decoded, and the user it gives is then
\* asked for a list of scopes and for single scopes.
InitAuthorize ==
    /\ ManagerIdle
    /\ request = NoRequest
    /\ jwt = NoJwt
    /\ credentials = NoCredentials
    /\ scaled = NoScaled
    /\ \E body \in TokenInfoBodies, scopes \in ScopeLists :
          authenticated_user = [pc |-> "from_json", body |-> body,
                                user |-> NoResult, scopes |-> scopes,
                                has_scopes |-> FALSE, asked |-> "",
                                authorized |-> NoResult]

authorizeFrame == <<managerVars, request, jwt, credentials, scaled>>

\* AuthenticatedUser::from_json(body)
DecodeUser ==
    /\ authenticated_user.pc = "from_json"
    /\ LET decoded == from_json(authenticated_user.body) IN
          authenticated_user' =
              [authenticated_user EXCEPT
                  !.user = decoded,
                  !.pc = IF decoded[1] = "Ok" THEN "has_scopes"
                                               ELSE "unparsable"]
    /\ UNCHANGED authorizeFrame

\* user.has_scopes(&scopes)
HasScopes ==
    /\ authenticated_user.pc = "has_scopes"
    /\ authenticated_user' =
           [authenticated_user EXCEPT
               !.has_scopes = has_scopes(authenticated_user.user[2],
                                         authenticated_user.scopes),
               !.pc = "authorize"]
    /\ UNCHANGED authorizeFrame

\* user.authorize(&scope)
Authorize(scope) ==
    /\ authenticated_user.pc = "authorize"
    /\ authenticated_user' =
           [authenticated_user EXCEPT
               !.asked = scope,
               !.authorized = authorize(authenticated_user.user[2], scope),
               !.pc = "done"]
    /\ UNCHANGED authorizeFrame

NextAuthorize ==
    \/ DecodeUser
    \/ HasScopes
    \/ \E scope \in AskedScopes : Authorize(scope)

SpecAuthorize == InitAuthorize /\ [][NextAuthorize]_vars

\* ------------------------------------ one string decoded as a Plan B JWT

\* A string is the sequence of its dots and of its runs of other characters.
\* A run is described by what base64 decoding makes of it: Base64(Utf8(text))
\* for the encoding of a text, Base64(NotUtf8) for the encoding of bytes that
\* are no UTF-8 string, NotBase64 for characters that are no base64 at all.
Dot == <<"dot", 0>>

Utf8(text) == <<"utf8", text>>

NotUtf8 == <<"bytes", 0>>

Base64(bytes) == <<"base64", bytes>>

NotBase64 == <<"raw", 0>>

\* A text is a JSON object given by its map, another JSON value, or no JSON.
JsonObject(map) == <<"object", map>>

NotJson == <<"text", 0>>

\* The empty string
EmptyText == <<"empty", 0>>

\* The keys the Plan B projection reads: RegisteredHeader::KeyId and
\* Algorithm, and the claims sub, realm, scope, iss, exp, iat.
HeaderKeys == {"kid", "alg"}

PayloadKeys == {"sub", "realm", "scope", "iss", "exp", "iat"}

\* A JSON object as the map from those keys to its values, Absent for a key
\* it does not have.
EmptyMap == [k \in HeaderKeys \union PayloadKeys |-> Absent]

\* SAMPLE_HEADER_JSON
SampleHeader ==
    [EmptyMap EXCEPT !["kid"] = JsonString("testkey-es256"),
                     !["alg"] = JsonString("ES256")]

\* SAMPLE_PAYLOAD_JSON
SamplePayload ==
    [EmptyMap EXCEPT !["sub"] = JsonString("test2"),
                     !["scope"] = JsonArray(<<JsonString("cn")>>),
                     !["iss"] = JsonString("B"),
                     !["realm"] = JsonString("/services"),
                     !["exp"] = JsonNumber(1457319814),
                     !["iat"] = JsonNumber(1457291014)]

\* The values a field may have in a token under test: the value of the
\* sample, none, or one of another type.
FieldValues(key) ==
    LET good == IF key \in HeaderKeys THEN SampleHeader[key] ELSE SamplePayload[key]
    IN  {good, Absent, IF good[1] = "string" THEN JsonNumber(1) ELSE JsonString("cn")}
           \union (IF key = "scope" THEN {JsonArray(<<JsonString("cn"), JsonNumber(1)>>)}
                                    ELSE {})

\* The header objects and the payload objects of the tokens under test.
HeaderMaps ==
    { [EmptyMap EXCEPT !["kid"] = kid, !["alg"] = alg] :
          kid \in FieldValues("kid"), alg \in FieldValues("alg") }

PayloadMaps ==
    { [EmptyMap EXCEPT !["sub"] = sub, !["realm"] = realm, !["scope"] = scope,
                       !["iss"] = iss, !["exp"] = exp, !["iat"] = iat] :
          sub \in FieldValues("sub"), realm \in FieldValues("realm"),
          scope \in FieldValues("scope"), iss \in FieldValues("iss"),
          exp \in FieldValues("exp"), iat \in FieldValues("iat") }

\* The segments the strings under test are put together from: none (an empty
\* segment) or one run of characters.
SampleSegments ==
    { <<>>, <<Base64(Utf8(JsonObject(SampleHeader)))>>,
      <<Base64(Utf8(JsonObject(SamplePayload)))>>,
      <<Base64(Utf8(JsonArray(<<JsonString("cn")>>)))>>,
      <<Base64(Utf8(NotJson))>>, <<Base64(NotUtf8)>>, <<NotBase64>> }

\* The strings under test have up to MaxSegments segments.
MaxSegments == 4

RECURSIVE join_segments(_)
\* The string whose segments are the given ones: segment, dot, segment, ...
join_segments(segments) == IF Len(segments) = 1 THEN segments[1] ELSE segments[1] \o <<Dot>> \o join_segments(Tail(segments))

\* Strings of 1 to MaxSegments sample segments, and strings of the form
\* header.payload.signature with every header and payload object under test.
JwtStrings ==
    { join_segments(segments) :
          segments \in UNION { [1..n -> SampleSegments] : n \in 1..MaxSegments } }
       \union
    { join_segments(<<<<Base64(Utf8(JsonObject(header)))>>,
                      <<Base64(Utf8(JsonObject(payload)))>>,
                      <<NotBase64>>>>) :
          header \in HeaderMaps, payload \in PayloadMaps }

\* Result<_, String>: Err(message), the message given by the field it names
\* (if any) and by what it says of it.
JwtErr(names, problem) == <<"Err", [names |-> names, problem |-> problem]>>

RECURSIVE split(_)
\* complete.split('.').collect(): the segments between the dots
split(complete) == IF \A i \in 1..Len(complete) : complete[i] # Dot THEN <<complete>> ELSE LET d == CHOOSE i \in 1..Len(complete) : complete[i] = Dot /\ \A j \in 1..(i - 1) : complete[j] # Dot IN <<SubSeq(complete, 1, d - 1)>> \o split(SubSeq(complete, d + 1, Len(complete)))

\* Mutant of extract_data_segments: at least 3 parts.
extract_data_segments_AtLeast3(complete) == LET parts == split(complete) IN IF Len(parts) >= 3 THEN <<"Ok", <<parts[1], parts[2]>>>> ELSE JwtErr("", "must split to 3 parts")

\* extract_data_segments
extract_data_segments(complete) == LET parts == split(complete) IN IF Len(parts) = 3 THEN <<"Ok", <<parts[1], parts[2]>>>> ELSE JwtErr("", "must split to 3 parts")

\* decode_base_64_bytes: what.from_base64()
decode_base_64_bytes(what) ==
    IF what = <<>> THEN <<"Ok", Utf8(EmptyText)>>
    ELSE IF what[1][1] = "base64" THEN <<"Ok", what[1][2]>>
    ELSE JwtErr("", "No base64 encoded bytes")

\* decode_base_64_string: String::from_utf8(bytes)
decode_base_64_string(what) ==
    LET bytes == decode_base_64_bytes(what) IN
    IF bytes[1] # "Ok" THEN bytes
    ELSE IF bytes[2][1] = "utf8" THEN <<"Ok", bytes[2][2]>>
    ELSE JwtErr("", "not a valid UTF-8 String")

\* decode_data_segments
decode_data_segments(complete) ==
    LET segments == extract_data_segments(complete) IN
    IF segments[1] # "Ok" THEN segments
    ELSE LET decoded_header == decode_base_64_string(segments[2][1])
             decoded_payload == decode_base_64_string(segments[2][2])
         IN  IF decoded_header[1] # "Ok" THEN decoded_header
             ELSE IF decoded_payload[1] # "Ok" THEN decoded_payload
             ELSE <<"Ok", <<decoded_header[2], decoded_payload[2]>>>>

\* parse_json_str_to_json_map: Json::from_str, then Json::Object(obj) or not
parse_json_str_to_json_map(json_str) ==
    IF json_str[1] \in {"text", "empty"} THEN JwtErr("", "no JSON")
    ELSE IF json_str[1] = "object" THEN <<"Ok", json_str[2]>>
    ELSE JwtErr("", "Not a JSON object.")

\* JsonWebToken { header, payload }
JsonWebToken(header, payload) == [header |-> header, payload |-> payload]

\* JsonWebToken::from_str
JsonWebToken_from_str(s_) ==
    LET strs == decode_data_segments(s_) IN
    IF strs[1] # "Ok" THEN strs
    ELSE LET header == parse_json_str_to_json_map(strs[2][1])
             payload == parse_json_str_to_json_map(strs[2][2])
         IN  IF header[1] # "Ok" THEN header
             ELSE IF payload[1] # "Ok" THEN payload
             ELSE <<"Ok", JsonWebToken(header[2], payload[2])>>

\* Json::as_string, Json::as_array, Json::as_i64 on Option<&Json>
as_string(json) == json[1] = "string"

as_array(json) == json[1] = "array"

as_i64(json) == json[1] = "number"

\* Seconds of a day
SecondsPerDay == 86400

\* NaiveDateTime::from_timestamp_opt(secs, 0): the day since the epoch and the
\* second of that day
from_timestamp_opt(secs) == [days |-> secs \div SecondsPerDay, secs |-> secs % SecondsPerDay]

\* PlanbToken::from_jwt_token: the fields are read in this order, and the
\* first one that is missing or of another type ends the call with its message
from_jwt_token(jwt_token) ==
    LET header == jwt_token.header
        payload == jwt_token.payload
    IN
    IF ~as_string(header["kid"])
    THEN JwtErr("kid", "is missing or not a String.")
    ELSE IF ~as_string(header["alg"])
    THEN JwtErr("Algorithm", "is missing or not a String.")
    ELSE IF ~as_string(payload["sub"])
    THEN JwtErr("Subject", "is missing or not a String.")
    ELSE IF ~as_string(payload["realm"])
    THEN JwtErr("realm", "is missing or not a String.")
    ELSE IF ~as_array(payload["scope"])
    THEN JwtErr("realm", "is missing or not an array.")
    ELSE IF \E i \in 1..Len(payload["scope"][2]) : ~as_string(payload["scope"][2][i])
    THEN JwtErr("scopes", "Element not a String")
    ELSE IF ~as_string(payload["iss"])
    THEN JwtErr("Issuer", "is missing or not a String.")
    ELSE IF ~as_i64(payload["exp"])
    THEN JwtErr("ExpirationTime", "is missing or not a i64.")
    ELSE IF ~as_i64(payload["iat"])
    THEN JwtErr("IssuedAt", "is missing or not a i64.")
    ELSE <<"Ok", [header |-> [key_id |-> header["kid"][2],
                              algorithm |-> header["alg"][2]],
                  payload |-> [subject |-> payload["sub"][2],
                               realm |-> payload["realm"][2],
                               scopes |-> [i \in 1..Len(payload["scope"][2]) |->
                                              payload["scope"][2][i][2]],
                               issuer |-> payload["iss"][2],
                               expiration_date_utc |->
                                   from_timestamp_opt(payload["exp"][2]),
                               issue_date_utc |->
                                   from_timestamp_opt(payload["iat"][2])]]>>

\* PlanbToken::from_str(s) is about to be called.
InitJwt ==
    /\ ManagerIdle
    /\ request = NoRequest
    /\ authenticated_user = NoUser
    /\ credentials = NoCredentials
    /\ scaled = NoScaled
    /\ \E s_ \in JwtStrings :
          jwt = [pc |-> "from_str", s |-> s_, jwt_token |-> NoResult,
                 result |-> NoResult]

jwtFrame == <<managerVars, request, authenticated_user, credentials, scaled>>

\* PlanbToken::from_str: let jwt_token = try!{JsonWebToken::from_str(s)}
JwtFromStr ==
    /\ jwt.pc = "from_str"
    /\ LET jwt_token == JsonWebToken_from_str(jwt.s) IN
          jwt' = IF jwt_token[1] = "Ok"
                 THEN [jwt EXCEPT !.jwt_token = jwt_token, !.pc = "from_jwt_token"]
                 ELSE [jwt EXCEPT !.jwt_token = jwt_token, !.result = jwt_token,
                                  !.pc = "done"]
    /\ UNCHANGED jwtFrame

\* PlanbToken::from_str: PlanbToken::from_jwt_token(&jwt_token).map_err(..)
FromJwtToken ==
    /\ jwt.pc = "from_jwt_token"
    /\ jwt' = [jwt EXCEPT !.result = from_jwt_token(jwt.jwt_token[2]),
                          !.pc = "done"]
    /\ UNCHANGED jwtFrame

NextJwt ==
    \/ JwtFromStr
    \/ FromJwtToken

SpecJwt == InitJwt /\ [][NextJwt]_vars

\* ------------------------------- a JsonWebToken built and read field by field

\* A JsonWebToken is built with at most MaxAdds add_header / add_payload calls.
MaxAdds == 2

\* Header::Registered(header) and Header::Custom(key), Claim::Registered(claim)
\* and Claim::Custom(key), as <<kind, key>>: the key of a registered one is its
\* to_key().
Registered(key) == <<"Registered", key>>

Custom(key) == <<"Custom", key>>

\* The headers and the claims asked for: RegisteredHeader::KeyId and Algorithm,
\* RegisteredClaim::Subject and Issuer, and custom keys, one of them the key of
\* a registered header.
Headers == {Registered("kid"), Registered("alg"), Custom("kid"), Custom("realm")}

Claims == {Registered("sub"), Registered("iss"), Custom("realm"), Custom("kid")}

\* The Json values added.
AddedValues == {JsonString("a"), JsonNumber(1)}

\* JsonWebToken::add_header: x.header.insert(tag, value)
add_header(jwt_token, header, value) ==
    [jwt_token EXCEPT !.header[header[2]] = value]

\* JsonWebToken::get_header: Registered => self.header.get(header.to_key()),
\* Custom(key) => self.payload.get(key); None is Absent
get_header(jwt_token, header) ==
    IF header[1] = "Registered"
    THEN jwt_token.header[header[2]]
    ELSE jwt_token.payload[header[2]]

\* JsonWebToken::add_payload: x.payload.insert(tag, value)
add_payload(jwt_token, for_claim, value) ==
    [jwt_token EXCEPT !.payload[for_claim[2]] = value]

\* JsonWebToken::get_payload: self.payload.get(key) for both kinds of Claim
get_payload(jwt_token, for_claim) == jwt_token.payload[for_claim[2]]

\* JsonWebToken::new()
InitJwtFields ==
    /\ ManagerIdle
    /\ request = NoRequest
    /\ authenticated_user = NoUser
    /\ credentials = NoCredentials
    /\ scaled = NoScaled
    /\ jwt = [pc |-> "new", jwt_token |-> JsonWebToken(EmptyMap, EmptyMap),
              adds |-> 0, last_add |-> <<"none", Custom(""), Absent>>,
              got |-> <<"none", Custom(""), Absent>>]

\* jwt_token.add_header(&header, value)
AddHeader(header, value) ==
    /\ jwt.pc = "new"
    /\ jwt.adds < MaxAdds
    /\ jwt' = [jwt EXCEPT !.jwt_token = add_header(jwt.jwt_token, header, value),
                          !.adds = @ + 1,
                          !.last_add = <<"add_header", header, value>>]
    /\ UNCHANGED jwtFrame

\* jwt_token.add_payload(&for_claim, value)
AddPayload(for_claim, value) ==
    /\ jwt.pc = "new"
    /\ jwt.adds < MaxAdds
    /\ jwt' = [jwt EXCEPT !.jwt_token = add_payload(jwt.jwt_token, for_claim, value),
                          !.adds = @ + 1,
                          !.last_add = <<"add_payload", for_claim, value>>]
    /\ UNCHANGED jwtFrame

\* jwt_token.get_header(&header)
GetHeader(header) ==
    /\ jwt.pc = "new"
    /\ jwt' = [jwt EXCEPT !.pc = "got",
                          !.got = <<"get_header", header,
                                    get_header(jwt.jwt_token, header)>>]
    /\ UNCHANGED jwtFrame

\* jwt_token.get_payload(&for_claim)
GetPayload(for_claim) ==
    /\ jwt.pc = "new"
    /\ jwt' = [jwt EXCEPT !.pc = "got",
                          !.got = <<"get_payload", for_claim,
                                    get_payload(jwt.jwt_token, for_claim)>>]
    /\ UNCHANGED jwtFrame

NextJwtFields ==
    \/ \E header \in Headers, value \in AddedValues : AddHeader(header, value)
    \/ \E for_claim \in Claims, value \in AddedValues : AddPayload(for_claim, value)
    \/ \E header \in Headers : GetHeader(header)
    \/ \E for_claim \in Claims : GetPayload(for_claim)

SpecJwtFields == InitJwtFields /\ [][NextJwtFields]_vars

\* ------------------------------------------ one get_credentials_pair call

\* CredentialsError::IoError { message } and ::DecodingError { message }
CredentialsError(kind, message) == <<"Err", [kind |-> kind, message |-> message]>>

\* CredentialsResult: what a provider of client credentials may answer.
ClientCredentialsResults ==
    { <<"Ok", Credentials("client_id", "client_secret")>>,
      <<"Ok", Credentials("id", "secret")>>,
      CredentialsError("IoError", "client.json not found"),
      CredentialsError("IoError", "permission denied"),
      CredentialsError("DecodingError", "client.json") }

\* CredentialsResult: what a provider of user credentials may answer.
UserCredentialsResults ==
    { <<"Ok", Credentials("user_id", "user_secret")>>,
      <<"Ok", Credentials("id", "secret")>>,
      CredentialsError("IoError", "user.json not found"),
      CredentialsError("IoError", "permission denied"),
      CredentialsError("DecodingError", "user.json") }

\* The implementations of CredentialsPairProvider: a type that implements
\* both traits itself (as StaticCredentialsProvider does), and the generic
\* CredentialsProvider<C, U> made of two providers.
CredentialsPairProviders == {"direct", "CredentialsProvider"}

\* get_client_credentials of the provider, given what its client source and
\* its user source answer. CredentialsProvider<C, U> answers it with
\* self.user_credentials_provider.get_user_credentials().
get_client_credentials(c) ==
    IF c.provider = "CredentialsProvider" THEN c.user_source ELSE c.client_source

\* get_user_credentials of the provider. CredentialsProvider<C, U> answers it
\* with self.client_credentials_provider.get_client_credentials().
get_user_credentials(c) ==
    IF c.provider = "CredentialsProvider" THEN c.client_source ELSE c.user_source

\* Mutant of try: go on with the next statement after an Err, too.
try_GoOn(c, res, next_pc) == [c EXCEPT !.pc = next_pc, !.result = res]

\* try!{..}: on Err(err) return Err(From::from(err)), which is err itself for
\* a CredentialsError; on Ok go on with the next statement
try(c, res, next_pc) == IF res[1] = "Ok" THEN [c EXCEPT !.pc = next_pc] ELSE [c EXCEPT !.pc = "returned", !.result = res]

\* provider.get_credentials_pair() is about to be called.
InitCredentials ==
    /\ ManagerIdle
    /\ request = NoRequest
    /\ authenticated_user = NoUser
    /\ jwt = NoJwt
    /\ scaled = NoScaled
    /\ \E provider \in CredentialsPairProviders,
          client_source \in ClientCredentialsResults,
          user_source \in UserCredentialsResults :
          credentials = [pc |-> "get_client_credentials", provider |-> provider,
                         client_source |-> client_source,
                         user_source |-> user_source,
                         calls |-> <<>>,
                         client_credentials |-> NoResult,
                         user_credentials |-> NoResult,
                         result |-> NoResult]

credentialsFrame == <<managerVars, request, authenticated_user, jwt, scaled>>

\* let client_credentials = try!{self.get_client_credentials()};
GetClientCredentials ==
    /\ credentials.pc = "get_client_credentials"
    /\ LET res == get_client_credentials(credentials) IN
          credentials' =
              try([credentials EXCEPT
                      !.calls = Append(credentials.calls,
                                       <<"get_client_credentials", res>>),
                      !.client_credentials = res],
                  res, "get_user_credentials")
    /\ UNCHANGED credentialsFrame

\* let user_credentials = try!{self.get_user_credentials()};
GetUserCredentials ==
    /\ credentials.pc = "get_user_credentials"
    /\ LET res == get_user_credentials(credentials) IN
          credentials' =
              try([credentials EXCEPT
                      !.calls = Append(credentials.calls,
                                       <<"get_user_credentials", res>>),
                      !.user_credentials = res],
                  res, "pair")
    /\ UNCHANGED credentialsFrame

\* Ok(CredentialsPair { client_credentials, user_credentials })
ReturnCredentialsPair ==
    /\ credentials.pc = "pair"
    /\ credentials' =
           [credentials EXCEPT
               !.pc = "returned",
               !.result = <<"Ok", CredentialsPair(credentials.client_credentials[2],
                                                  credentials.user_credentials[2])>>]
    /\ UNCHANGED credentialsFrame

NextCredentials ==
    \/ GetClientCredentials
    \/ GetUserCredentials
    \/ ReturnCredentialsPair

SpecCredentials == InitCredentials /\ [][NextCredentials]_vars

\* ------------------------------------------------------ one scale_time call

\* The bits of the significand of an f32, the hidden one included.
F32Precision == 24

\* The f32 literals of the tests, in tenths: 0.0f32, 0.1f32, ..., 1.0f32.
Tenths == 0..10

\* The timestamps of the tests (100 and 200), and one between them.
ScaleTimes == {100, 150, 200}

\* The f32 nearest to tenths / 10 (ties to even), widened to f64 without loss:
\* the significand m with 2^23 <= m <= 2^24 over the power of two 2^e.
f32(tenths) ==
    IF tenths = 0 THEN [num |-> 0, den |-> 1]
    ELSE LET e == CHOOSE k \in 0..30 :
                      /\ 10 * 2^(F32Precision - 1) <= tenths * 2^k
                      /\ tenths * 2^k < 10 * 2^F32Precision
             q == (tenths * 2^e) \div 10
             r == (tenths * 2^e) % 10
             m == IF r > 5 \/ (r = 5 /\ q % 2 = 1) THEN q + 1 ELSE q
         IN  [num |-> m, den |-> 2^e]

\* scale_time(now, later, factor) is about to be called with an f32 literal.
InitScaleTime ==
    /\ ManagerIdle
    /\ request = NoRequest
    /\ authenticated_user = NoUser
    /\ jwt = NoJwt
    /\ credentials = NoCredentials
    /\ \E t \in ScaleTimes, later \in ScaleTimes, tenths \in Tenths :
          scaled = [pc |-> "factor", now |-> t, later |-> later,
                    tenths |-> tenths, factor |-> [num |-> 0, den |-> 1],
                    result |-> 0]

scaleTimeFrame == <<managerVars, request, authenticated_user, jwt, credentials>>

\* let factor = 0.7f32;
FactorLiteral ==
    /\ scaled.pc = "factor"
    /\ scaled' = [scaled EXCEPT !.factor = f32(scaled.tenths),
                                !.pc = "scale_time"]
    /\ UNCHANGED scaleTimeFrame

\* scale_time(now, later, factor)
ScaleTime ==
    /\ scaled.pc = "scale_time"
    /\ scaled' = [scaled EXCEPT
                     !.result = scale_time(scaled.now, scaled.later, scaled.factor),
                     !.pc = "done"]
    /\ UNCHANGED scaleTimeFrame

NextScaleTime ==
    \/ FactorLiteral
    \/ ScaleTime

SpecScaleTime == InitScaleTime /\ [][NextScaleTime]_vars

\* ------------------------------------ one update_token_data call on a slot

\* `now` of the tests of update_token_data_with_access_token (100), and a later
\* one.
UpdateTimes == {100, 150}

\* valid_until_utc of the access token of the mock: 200 as in the test, the
\* now of the call, and a time that has passed.
AccessTokenValidUntil == {50, 150, 200}

\* The (refresh, warning) thresholds of a call: 0.6f32 and 0.8f32
\* (test_funs.rs), 0.5f32 and 1.0f32 (test_loop_funs.rs), and -0.5f32 and
\* 1.5f32, which no check of the configuration rejects.
UpdateThresholds ==
    { <<f32(6), f32(8)>>,
      <<f32(5), f32(10)>>,
      <<[num |-> -1, den |-> 2], [num |-> 3, den |-> 2]>> }

\* `sample_token_data` of the tests: a slot that was never refreshed.
SampleTokenData ==
    [token_name |-> "token_data", token |-> None, update_latest |-> -1,
     valid_until |-> -2, warn_after |-> -3, scopes |-> {"sc"}]

\* A slot that holds the token of an earlier refresh.
RefreshedTokenData ==
    [token_name |-> "token_data", token |-> 7, update_latest |-> 90,
     valid_until |-> 120, warn_after |-> 110, scopes |-> {"sc"}]

\* AccessToken { token, issued_at_utc, valid_until_utc }: issued_at_utc is not
\* read by the manager.
AccessToken(token, valid_until) == [token |-> token, valid_until |-> valid_until]

\* `result` of the AccessTokenProviderMock: Ok(sample_access_token), or
\* Err(RequestAccessTokenError::InternalError("error")).
MockResults ==
    { <<"Ok", AccessToken(1, valid_until)>> : valid_until \in AccessTokenValidUntil }
        \union { <<"Err", AccessToken(0, 0)>> }

\* Mutant of update_token_data: a failed query clears the slot's token.
update_token_data_ClearsOnErr(token_data, res, now_utc, refresh_threshold, warning_threshold) ==
    IF res[1] = "Ok"
    THEN [result |-> <<"Ok", now_utc>>,
          token_data |-> update_token_data_with_access_token(
                             now_utc, token_data, res[2],
                             refresh_threshold, warning_threshold)]
    ELSE [result |-> <<"Err", 0>>, token_data |-> [token_data EXCEPT !.token = None]]

\* fn update_token_data, from what query_access_token returned on: try! leaves
\* with the Err, else the slot is updated at now_utc and Ok(now_utc) returned
update_token_data(token_data, res, now_utc, refresh_threshold, warning_threshold) ==
    IF res[1] = "Ok"
    THEN [result |-> <<"Ok", now_utc>>,
          token_data |-> update_token_data_with_access_token(
                             now_utc, token_data, res[2],
                             refresh_threshold, warning_threshold)]
    ELSE [result |-> <<"Err", 0>>, token_data |-> token_data]

\* update_token_data(&mut sample_token_data, &provider, &credentials, ..) is
\* about to be called.
InitUpdate ==
    /\ conf = ManagerConfig
    /\ provider_results = <<>>
    /\ token_results = <<>>
    /\ query = NoQuery
    /\ token_info = NoTokenInfo
    /\ ComponentsIdle
    /\ InitLoop
    /\ \E slot \in {SampleTokenData, RefreshedTokenData},
          mock \in MockResults, t \in UpdateTimes, th \in UpdateThresholds :
          token_update = [pc |-> "query_access_token", before |-> slot,
                          token_data |-> slot, mock |-> mock,
                          attempts_left |-> QueryAttempts, provider_calls |-> 0,
                          access_token |-> <<"None", AccessToken(0, 0)>>,
                          now_utc |-> t,
                          refresh_percentage_threshold |-> th[1],
                          warning_percentage_threshold |-> th[2],
                          result |-> <<"None", 0>>]

updateFrame == <<conf, provider_results, token_results, query, token_info,
                 clock, loopVars, sharedVars, componentVars>>

\* query_access_token: access_token_provider.get_access_token(..) returns the
\* mock's result; Ok is returned, Err is retried with attempts_left - 1
MockGetAccessToken ==
    /\ token_update.pc = "query_access_token"
    /\ token_update.attempts_left > 0
    /\ token_update' =
          IF token_update.mock[1] = "Ok"
          THEN [token_update EXCEPT !.pc = "queried",
                                    !.provider_calls = @ + 1,
                                    !.access_token = token_update.mock]
          ELSE [token_update EXCEPT !.attempts_left = @ - 1,
                                    !.provider_calls = @ + 1,
                                    !.access_token = token_update.mock]
    /\ UNCHANGED updateFrame

\* query_access_token: attempts_left == 0, Err(last_error)
MockQueryGivesUp ==
    /\ token_update.pc = "query_access_token"
    /\ token_update.attempts_left = 0
    /\ token_update' = [token_update EXCEPT !.pc = "queried"]
    /\ UNCHANGED updateFrame

\* update_token_data: try!{query_access_token(..)}, then the update at now_utc
UpdateTokenData ==
    /\ token_update.pc = "queried"
    /\ LET res == update_token_data(token_update.token_data,
                                    token_update.access_token,
                                    token_update.now_utc,
                                    token_update.refresh_percentage_threshold,
                                    token_update.warning_percentage_threshold)
       IN token_update' = [token_update EXCEPT !.pc = "returned",
                                               !.token_data = res.token_data,
                                               !.result = res.result]
    /\ UNCHANGED updateFrame

NextUpdate ==
    \/ MockGetAccessToken
    \/ MockQueryGivesUp
    \/ UpdateTokenData

SpecUpdate == InitUpdate /\ [][NextUpdate]_vars

\* ------------------------------ the loop with tokens that live for hours

\* Seconds of validity of the provider's access tokens: 2 s, and 8000 s, whose
\* update_latest at threshold 0.5 is more than an hour ahead.
LongLifetimes == {2, 8000}

\* The loop thread alone, with every get_credentials_pair call succeeding and
\* no stop requested.
NextLongLived ==
    \/ Tick
    \/ Initialize
    \/ GetCredentialsOk
    \/ TokenNotDue
    \/ \E lifetime \in LongLifetimes : QueryOk(lifetime)
    \/ QueryErr
    \/ AcquireWrite
    \/ InsertStaged
    \/ ReleaseWrite
    \/ CalcSleep
    \/ Wake

SpecLongLived == Init /\ [][NextLongLived]_vars

\* ------------------- the scenario with a credentials provider that gives out

\* loop top: get_credentials_pair() returns Err once more, after the failures
\* that are counted: thread::sleep(TDuration::from_secs(1)); continue;
GetCredentialsErrAgain ==
    /\ pc = "get_credentials"
    /\ cred_failures >= MaxCredFailures
    /\ pc' = OnCredentialsError
    /\ wake_at' = clock + CredentialsRetrySleepMs \div 1000
    /\ next_update_at' = 0
    /\ sleep_now' = 0
    /\ sleep_ms' = -1
    /\ UNCHANGED <<otherVars, clock, sharedVars, managed_token_data, token_states_to_update,
                   now, idx, attempts_left, last_error, applied, calls, cred_failures,
                   provider_failed, outcome, iterations_after_stop>>

\* The credentials provider works until its first failure and fails from then
\* on.
GetCredentialsOkBeforeOutage ==
    /\ cred_failures = 0
    /\ GetCredentialsOk

\* Time passes during the 1 s sleep after a credentials failure, up to the
\* last get_token of the test thread.
OutageTick ==
    /\ pc = "credentials_sleep"
    /\ clock < wake_at
    /\ clock < ReadTimes[Len(ReadTimes)]
    /\ ~ReadPending
    /\ clock' = clock + 1
    /\ UNCHANGED <<otherVars, loopVars, sharedVars>>

\* thread::sleep(TDuration::from_secs(1)) returns; `continue`, after the last
\* get_token of the test thread: the clock is followed up to there, and the
\* loop goes on with the clock where it is.
CredentialsSleepEndLater ==
    /\ pc = "credentials_sleep"
    /\ clock < wake_at
    /\ clock >= ReadTimes[Len(ReadTimes)]
    /\ BeginIteration
    /\ UNCHANGED <<otherVars, clock, sharedVars, managed_token_data, token_states_to_update,
                   now, next_update_at, idx, attempts_left, last_error, applied,
                   sleep_now, sleep_ms, calls, cred_failures, provider_failed, outcome>>

\* The scenario of the tests without manager.stop(), with a credentials
\* provider that may give out for good.
NextOutage ==
    \/ ScenarioTick
    \/ OutageTick
    \/ CredentialsSleepEndLater
    \/ Initialize
    \/ GetCredentialsOkBeforeOutage
    \/ GetCredentialsErr
    \/ GetCredentialsErrAgain
    \/ CredentialsSleepEnd
    \/ TokenNotDue
    \/ MockProviderOk
    \/ MockProviderErr
    \/ AcquireWrite
    \/ InsertStaged
    \/ ReleaseWrite
    \/ CalcSleep
    \/ Wake
    \/ TestGetToken

\* Both threads keep running and time keeps passing: no step that stays
\* possible is put off for ever.
SpecOutage == InitScenario /\ [][NextOutage]_vars /\ WF_vars(NextOutage)

\* ------------------------------------------------------------- claims

\* What a consumer gets for a name from the map as it is now.
Published(name) == get_token(manager_state, name)

\* The slots of the loop thread, once it has initialised them.
Slots == {managed_token_data[i] : i \in 1..Len(managed_token_data)}

Staged == {token_states_to_update[k] : k \in 1..Len(token_states_to_update)}

C2_FailureOnValidTokenStagesNothing ==
    \A td \in Slots :
        outcome[td.token_name][1] = "fail_valid" =>
           /\ \A u \in Staged : u[1] # td.token_name
           /\ Published(td.token_name) = OkResult(td.token)

\* C2 witness: the iteration has published, a refresh of a valid token failed
\* in it, and the other token's refresh was published.
C2_Witness ==
    /\ pc = "check_stop"
    /\ outcome["tok_a"][1] = "fail_valid"
    /\ IsOk(Published("tok_a"))

C5_BatchAppliedUnderOneLock ==
    state_lock = "free" =>
       ~(pc = "insert" /\ 0 < applied /\ applied < Len(token_states_to_update))

\* C5 witness: a batch of two results is half applied, under the write lock.
C5_Witness ==
    /\ pc = "insert"
    /\ state_lock = "write"
    /\ Len(token_states_to_update) = 2
    /\ applied = 1
    /\ manager_state[token_states_to_update[1][1]] = token_states_to_update[1][2]

\* C6: after the publication of an iteration, the entry of every name whose
\* refresh succeeded is Ok(the new token) and the entry of every name whose
\* refresh failed on an expired token is that iteration's error, whatever the
\* entry was before.
C6_RequestErrorIsReplaced ==
    pc = "check_stop" =>
       \A n \in Names :
           /\ outcome[n][1] = "ok" => Published(n) = OkResult(outcome[n][2])
           /\ outcome[n][1] = "fail_expired" =>
                 Published(n) = RequestErrorResult(outcome[n][2])

\* C6 witness: the consumer got a RequestError for tok_b, and the iteration
\* that refreshed tok_b has replaced it by Ok.
C6_Witness ==
    /\ pc = "check_stop"
    /\ last_result[1] = "tok_b"
    /\ IsRequestError(last_result[2])
    /\ outcome["tok_b"][1] = "ok"
    /\ IsOk(Published("tok_b"))

\* C6 witness of the second case: an error is replaced by a newer error.
C6_WitnessNewerError ==
    /\ pc = "check_stop"
    /\ last_result[1] = "tok_b"
    /\ IsRequestError(last_result[2])
    /\ outcome["tok_b"][1] = "fail_expired"
    /\ Published("tok_b")[2] > last_result[2][2]

\* C7: a credentials failure leads to the 1 s sleep and from there to the top
\* of the loop, never to the end of the loop; as long as no provider call was
\* made every lookup gives NoToken; and the first iteration that gets
\* credentials and whose refreshes all succeed publishes Ok for every name.
C7_CredentialsFailureKeepsLoopAlive ==
    /\ [](calls = 0 => \A n \in Names : Published(n) = NoToken)
    /\ [](pc = "check_stop" /\ (\A n \in Names : outcome[n][1] = "ok")
             => \A n \in Names : IsOk(Published(n)))
    /\ [][/\ cred_failures' > cred_failures =>
                (pc' = "credentials_sleep" /\ wake_at' = clock + 1)
          /\ pc = "credentials_sleep" =>
                pc' \in {"credentials_sleep", "get_credentials"}]_vars

\* C7 witness: after a credentials failure, an iteration got credentials and
\* published Ok for every name.
C7_Witness ==
    /\ cred_failures > 0
    /\ pc = "check_stop"
    /\ \A n \in Names : outcome[n][1] = "ok" /\ IsOk(Published(n))

\* C8 as claimed: once stop() has set the flag, the loop begins at most one
\* more iteration before it exits.
C8_StopTakesEffect == iterations_after_stop <= 1

\* C9 as claimed: the end-of-iteration sleep is at most 5 s.
C9_SleepNeverExceedsCap == sleep_ms <= 5000

\* C10 as claimed: when the next update is due or overdue the sleep is 100 ms.
C10_DueSleepIs100ms ==
    (sleep_ms # -1 /\ next_update_at - sleep_now <= 0) => sleep_ms = 100

\* A step of the loop thread in which a refresh succeeds: update_token_data has
\* rewritten the slot at idx, with now_utc = clock.
RefreshSucceeds == pc = "for_token" /\ managed_token_data' # managed_token_data

\* a <= b for two factors whose denominators are powers of two
FactorLeq(a, b) ==
    IF a.den >= b.den
    THEN a.num <= b.num * (a.den \div b.den)
    ELSE a.num * (b.den \div a.den) <= b.num

\* 0 <= refresh_percentage_threshold <= warning_percentage_threshold <= 1
ThresholdsInOrder ==
    /\ 0 <= conf.refresh_percentage_threshold.num
    /\ FactorLeq(conf.refresh_percentage_threshold, conf.warning_percentage_threshold)
    /\ conf.warning_percentage_threshold.num <= conf.warning_percentage_threshold.den

AttemptInTime(td) ==
    /\ pc = "for_token"
    /\ managed_token_data[idx].token_name = td.token_name
    /\ now <= td.update_latest

C13_OneProviderCallPerTokenAndIteration ==
    pc = "for_token" => QueryAttempts - attempts_left <= 1

\* C14 as claimed: a 401 is not retried: once a request for the token was
\* answered with 401, no further request is sent for it in the same
\* update_token_data call, so the 401 is the last request of the call.
C14_UnauthorizedIsNotRetried ==
    query.pc # "none" =>
       \A i \in 1..Len(query.requests) :
           query.requests[i][2] = 401 => i = Len(query.requests)

\* The HTTP requests of the get_access_token call that is under way or was
\* made last.
CallRequests == SubSeq(query.requests, query.call_start + 1, Len(query.requests))

\* C15: one get_access_token call sends at most 3 HTTP requests; every request
\* before its last one failed in transport; a call that got a response returns
\* what evaluate_response makes of it, whatever the status; a call that got
\* none returns, after 3 failures, ConnectionError of the last failure.
C15_AtMostThreeRequestsPerCall ==
    query.pc # "none" =>
       /\ Len(CallRequests) <= 3
       /\ \A i \in 1..(Len(CallRequests) - 1) : CallRequests[i] = HttpError
       /\ query.pc = "execute_http_request" =>
             \A i \in 1..Len(CallRequests) : CallRequests[i] = HttpError
       /\ query.provider_result # NoResult =>
             IF CallRequests[Len(CallRequests)] = HttpError
             THEN /\ Len(CallRequests) = 3
                  /\ query.provider_result = ConnectionError(Len(query.requests))
             ELSE query.provider_result =
                     evaluate_response(CallRequests[Len(CallRequests)],
                                       Len(query.requests))

\* C15 witness: the second get_access_token call has returned ConnectionError
\* of its third failed request, the sixth of all.
C15_Witness ==
    /\ query.pc = "query_access_token"
    /\ query.provider_calls = 2
    /\ Len(CallRequests) = 3
    /\ query.provider_result = ConnectionError(6)

\* C15 witness of the other case: a call got a 500 on its second request and
\* returned RequestError without a third.
C15_WitnessResponse ==
    /\ query.pc = "query_access_token"
    /\ Len(CallRequests) = 2
    /\ CallRequests[1] = HttpError
    /\ query.provider_result = <<"RequestError", 500>>

\* The scenario of basic_manager_test: thresholds 0.5 and 1.0, the one managed
\* token "my_token", and a provider that answers token_1, token_2, token_3
\* with valid_until 10, 20 and 30 s after the start.
BasicManagerTest ==
    /\ conf = ScenarioConfig(<<my_token>>, refresh_percentage_threshold,
                             warning_percentage_threshold)
    /\ provider_results = <<10, 20, 30>>

C17_GetTokenOnlyReads ==
    [][last_result' # last_result =>
          /\ manager_state' = manager_state
          /\ state_lock' = state_lock
          /\ stop_requested' = stop_requested
          /\ last_result'[1] \notin DOMAIN manager_state =>
                last_result'[2] = NoToken]_vars

\* C17 witness: the loop is running and has published nothing yet, stop was
\* requested, and a consumer asked for the configured tok_b and got NoToken.
C17_Witness ==
    /\ pc = "for_token"
    /\ stop_requested
    /\ manager_state = <<>>
    /\ last_result = <<"tok_b", NoToken>>

\* C18: the loop thread holds the write lock of the map only while it applies
\* a staged batch: never while it gets credentials, calls the provider, reads
\* the stop flag or sleeps.
C18_WriteLockOnlyWhileApplying ==
    state_lock = "write" => pc = "insert"

\* C18 witness: a batch was published earlier, the loop thread is between two
\* provider calls for a due token, and the lock is free.
C18_Witness ==
    /\ pc = "for_token"
    /\ TokenDue
    /\ attempts_left < QueryAttempts
    /\ manager_state # <<>>
    /\ state_lock = "free"

\* valid_until of the access token that the mock provider returned as its
\* token-th answer.
ValidUntilOf(token) == provider_results[token]

\* C19 as claimed: when the Ok token published for a name is replaced by
\* another, the new one does not expire earlier than the one it replaces.
C19_Original_ValidUntilNeverDecreases ==
    [][\A n \in Names :
          (IsOk(Published(n)) /\ IsOk(get_token(manager_state', n))) =>
             ValidUntilOf(get_token(manager_state', n)[2])
                >= ValidUntilOf(Published(n)[2])]_vars

\* C19 as amended: an Ok token is only replaced by a token of a later provider
\* call; after a publication an Ok entry is the token of the name's slot, with
\* the valid_until the provider returned for it; and a new token that is not
\* expired on arrival does not expire before the update_latest of the token it
\* replaces.
C19_ReplacedOnlyWhenDue ==
    /\ [](pc = "check_stop" =>
             \A td \in Slots :
                 IsOk(Published(td.token_name)) =>
                    /\ Published(td.token_name) = OkResult(td.token)
                    /\ td.valid_until = ValidUntilOf(td.token))
    /\ [][/\ \A n \in Names :
                (IsOk(Published(n)) /\ IsOk(get_token(manager_state', n))) =>
                   get_token(manager_state', n)[2] >= Published(n)[2]
          /\ (RefreshSucceeds /\ managed_token_data[idx].token # None
                 /\ managed_token_data'[idx].valid_until >= clock) =>
                managed_token_data'[idx].valid_until
                   >= managed_token_data[idx].update_latest]_vars

\* C19 witness: token_2, not expired when it arrived, is published in place
\* of token_1 and expires before token_1 would have.
C19_Witness ==
    /\ pc = "check_stop"
    /\ conf.managed_tokens = <<my_token>>
    /\ Published("my_token") = OkResult(2)
    /\ ValidUntilOf(2) >= now
    /\ ValidUntilOf(2) < ValidUntilOf(1)

IsPrimaryRequest(r) == r[1] = "primary"

IsFallbackRequest(r) == r[1] = "fallback"

\* The outcomes of the requests sent to the primary and to the fallback URL,
\* in order.
PrimaryRequests == SelectSeq(token_info.requests, IsPrimaryRequest)

FallbackRequests == SelectSeq(token_info.requests, IsFallbackRequest)

\* What the requests to one URL say about an authenticate call that is at
\* url_now: at most 2 requests; every request but the last met an IO error;
\* after fewer than 2 requests that all met IO errors the URL is tried again.
UrlAttemptsInOrder(reqs, url_name) ==
    /\ Len(reqs) <= 2
    /\ \A i \in 1..(Len(reqs) - 1) : reqs[i][2] = IoError
    /\ (Len(reqs) = 1 /\ reqs[1][2] = IoError) =>
          /\ token_info.pc = "request_token_info"
          /\ token_info.url = url_name
          /\ token_info.attempts_left = 1

\* The requests to a URL have produced an Err: two IO errors, or a last
\* request that met a URI or other hyper error.
ProducedErr(reqs) ==
    /\ Len(reqs) > 0
    /\ reqs[Len(reqs)][2][1] # "Response"
    /\ reqs[Len(reqs)][2] = IoError => Len(reqs) = 2

\* C20: authenticate sends at most 2 requests to the primary URL and at most 2
\* to the fallback URL; the fallback is queried only after the primary has
\* produced an Err and only if one is configured, and then it is; an IO error
\* is followed by another attempt on the same URL while one is left; a URI
\* error ends the attempts on its URL, and the call then returns
\* NotAuthenticated unless the fallback is still to be tried.
C20_PrimaryThenFallbackTwoAttemptsEach ==
    token_info.pc # "none" =>
       /\ token_info.requests = PrimaryRequests \o FallbackRequests
       /\ UrlAttemptsInOrder(PrimaryRequests, "primary")
       /\ UrlAttemptsInOrder(FallbackRequests, "fallback")
       /\ (Len(FallbackRequests) > 0 \/ token_info.url = "fallback") =>
             (token_info.has_fallback /\ ProducedErr(PrimaryRequests))
       /\ (token_info.pc = "returned" /\ token_info.has_fallback
              /\ ProducedErr(PrimaryRequests)) => Len(FallbackRequests) > 0
       /\ \A i \in 1..Len(token_info.requests) :
             token_info.requests[i][2] = UriError =>
                /\ i = Len(PrimaryRequests) \/ i = Len(token_info.requests)
                /\ i = Len(token_info.requests) =>
                      \/ token_info.result = NotAuthenticated
                      \/ /\ token_info.pc = "request_token_info"
                         /\ token_info.url = "fallback"
                         /\ Len(FallbackRequests) = 0

\* C20 witness: with a fallback configured, both requests to the primary URL
\* met IO errors, the first request to the fallback met an IO error too, and
\* its second was answered 200 with a user.
C20_Witness ==
    /\ token_info.pc = "returned"
    /\ token_info.has_fallback
    /\ PrimaryRequests = <<<<"primary", IoError>>, <<"primary", IoError>>>>
    /\ Len(FallbackRequests) = 2
    /\ FallbackRequests[1][2] = IoError
    /\ token_info.result[1] = "Ok"

\* C20 witness of the URI case: without a fallback, a URI error on the first
\* request ends the call with NotAuthenticated.
C20_WitnessUriError ==
    /\ token_info.pc = "returned"
    /\ ~token_info.has_fallback
    /\ token_info.requests = <<<<"primary", UriError>>>>
    /\ token_info.result = NotAuthenticated

\* The Response the authenticate call got, if it got one.
GotResponse == token_info.response[1] = "Response"

\* The body of the response has a string under "uid" and an array holding
\* nothing but strings under "scope".
BodyHasUidAndScopes(body) ==
    /\ body.object
    /\ body.uid[1] = "string"
    /\ body.scope[1] = "array"
    /\ \A i \in 1..Len(body.scope[2]) : body.scope[2][i][1] = "string"

\* C21: authenticate returns Ok(AuthenticatedUser) only when a token-info
\* endpoint answered 200 OK with a body that has a string uid and an array of
\* strings as scope, and the user then carries that uid and those scopes; an
\* answer of 400 or of any other status yields NotAuthenticated.
C21_OkOnlyFor200WithUidAndScopes ==
    token_info.pc = "returned" =>
       /\ token_info.result[1] = "Ok" =>
             /\ GotResponse
             /\ token_info.response[2] = 200
             /\ BodyHasUidAndScopes(token_info.response[3])
             /\ token_info.result[2].uid = token_info.response[3].uid[2]
             /\ \A sc \in {"uid", "cn"} :
                   sc \in token_info.result[2].scopes <=>
                      \E i \in 1..Len(token_info.response[3].scope[2]) :
                         token_info.response[3].scope[2][i] = <<"string", sc>>
       /\ (GotResponse /\ token_info.response[2] # 200) =>
             token_info.result[1] = "NotAuthenticated"

\* C21 witness: the fallback URL answered 200 with uid "my_app" and scopes
\* uid and cn after the primary gave no response, and the call returned that
\* user.
C21_Witness ==
    /\ token_info.pc = "returned"
    /\ Len(FallbackRequests) = 1
    /\ token_info.response[2] = 200
    /\ token_info.result[1] = "Ok"
    /\ token_info.result[2].uid = "my_app"
    /\ token_info.result[2].scopes = {"uid", "cn"}

\* C21 witness of the other statuses: a 400 answer ended in NotAuthenticated.
C21_WitnessBadRequest ==
    /\ token_info.pc = "returned"
    /\ GotResponse
    /\ token_info.response[2] = 400
    /\ token_info.result[1] = "NotAuthenticated"

\* Every request the call sent met an IO error (a failed connection), and
\* every URL there is was tried as often as it may be.
AllAttemptsFailedInTransport ==
    /\ Len(token_info.requests) > 0
    /\ \A i \in 1..Len(token_info.requests) :
          token_info.requests[i][2][1] = "Io"
    /\ Len(token_info.requests) = IF token_info.has_fallback THEN 4 ELSE 2

\* C22: when every attempt on the primary URL and on the fallback URL (if
\* configured) ends in a transport failure, authenticate returns Connection or
\* Unknown, never NotAuthenticated and never Ok.
C22_TransportExhaustionIsConnectionOrUnknown ==
    (token_info.pc = "returned" /\ AllAttemptsFailedInTransport) =>
        token_info.result[1] \in {"Connection", "Unknown"}

\* C22 witness: with a fallback configured, the four requests all met IO
\* errors and the call returned Unknown.
C22_Witness ==
    /\ token_info.pc = "returned"
    /\ token_info.has_fallback
    /\ AllAttemptsFailedInTransport
    /\ token_info.result[1] = "Unknown"

\* C22 witness without a fallback: two IO errors on the primary URL.
C22_WitnessNoFallback ==
    /\ token_info.pc = "returned"
    /\ ~token_info.has_fallback
    /\ AllAttemptsFailedInTransport
    /\ token_info.result[1] = "Unknown"

\* The before middleware has run on the request.
BeforeHasRun == request.pc \notin {"none", "before"} /\ request.linked_before

\* The request carries a Bearer header and authenticate succeeded on its token.
AuthenticationSucceeded ==
    /\ request.authorization = "bearer"
    /\ request.auth_result[1] = "Ok"

\* C23: the pre-processing hook attaches an AuthenticatedUser to the request if
\* and only if the request carries an Authorization: Bearer header and
\* authenticate succeeds on its token, and the user is the one authenticate
\* returned; in every other case the request is failed with Unauthorized,
\* nothing is attached, and the handler is not invoked.
C23_UserAttachedIffAuthenticated ==
    BeforeHasRun =>
       /\ (request.extensions[1] = "Some") <=> AuthenticationSucceeded
       /\ AuthenticationSucceeded =>
             request.extensions = <<"Some", request.auth_result[2]>>
       /\ ~AuthenticationSucceeded =>
             /\ ~request.handler_invoked
             /\ request.incoming.kind = "Err"
             /\ request.incoming.status = Unauthorized
             /\ request.response.status = Unauthorized

\* C23 witness: a request with a Bearer header whose token authenticate
\* rejected went through the chain without reaching the handler.
C23_Witness ==
    /\ request.pc = "done"
    /\ request.linked_before
    /\ request.authorization = "bearer"
    /\ request.auth_result[1] = "NotAuthenticated"
    /\ ~request.handler_invoked
    /\ request.response.status = Unauthorized

\* C23 witness of the success: the user of authenticate is attached and the
\* handler has been invoked.
C23_WitnessAttached ==
    /\ request.linked_before
    /\ request.extensions = <<"Some", AuthenticatedUser("uid", {"a", "b"})>>
    /\ request.handler_invoked

C24_WitnessCatch ==
    /\ request.pc = "done"
    /\ request.extensions[1] = "Some"
    /\ request.incoming = IronResult("Err", 500, "handler")
    /\ request.response = request.incoming

\* C24 witness of the error-catch variant without a user: a 404 error is
\* rewritten.
C24_WitnessCatchRewrites ==
    /\ request.pc = "done"
    /\ request.extensions = NoResult
    /\ request.incoming = IronResult("Err", 404, "handler")
    /\ request.response.status = Unauthorized
    /\ request.response.body = "error_object"

\* The scopes of the user that was decoded.
UserScopes == authenticated_user.user[2].scopes

\* C25: has_scopes(S) is true exactly when every scope of S is among the
\* user's scopes, and authorize(s) returns Ok exactly when s is among them
\* (when has_scope(s) is true); a user decoded from a token-info body with
\* "scope":[] has no scopes, and has_scopes of any non-empty list is false
\* for it.
C25_HasScopesIsSubsetAndAuthorizeIsHasScope ==
    /\ authenticated_user.pc \in {"has_scopes", "authorize", "done"} =>
          (authenticated_user.body.scope = <<"array", <<>>>> => UserScopes = {})
    /\ authenticated_user.pc \in {"authorize", "done"} =>
          /\ authenticated_user.has_scopes <=>
                Range(authenticated_user.scopes) \subseteq UserScopes
          /\ (UserScopes = {} /\ Len(authenticated_user.scopes) > 0) =>
                ~authenticated_user.has_scopes
    /\ authenticated_user.pc = "done" =>
          /\ authenticated_user.authorized[1] = "Ok" <=>
                authenticated_user.asked \in UserScopes
          /\ authenticated_user.authorized[1] \in {"Ok", "NotAuthorized"}

\* C25 witness: the user decoded from the body with scopes uid and cn has
\* both scopes of the list <<uid, cn>> and is not authorized for "write".
C25_Witness ==
    /\ authenticated_user.pc = "done"
    /\ UserScopes = {"uid", "cn"}
    /\ authenticated_user.scopes = <<"uid", "cn">>
    /\ authenticated_user.has_scopes
    /\ authenticated_user.asked = "write"
    /\ authenticated_user.authorized[1] = "NotAuthorized"

\* C25 witness of the empty-scope body: has_scopes(<<uid, cn>>) is false.
C25_WitnessNoScopes ==
    /\ authenticated_user.pc = "authorize"
    /\ authenticated_user.body.scope = <<"array", <<>>>>
    /\ authenticated_user.scopes = <<"uid", "cn">>
    /\ ~authenticated_user.has_scopes

\* The value of a field of a form-encoded body, as the pieces of its string.
FormField(form, key) ==
    LET i == CHOOSE j \in 1..Len(form) : form[j][1] = key IN form[i][2]

\* The scopes joined by single spaces: scope, space, scope, ..., scope.
SpaceJoined(pieces, scopes) ==
    /\ Len(pieces) = IF Len(scopes) = 0 THEN 0 ELSE 2 * Len(scopes) - 1
    /\ \A i \in 1..Len(pieces) :
          pieces[i] = IF i % 2 = 1 THEN scopes[(i + 1) \div 2] ELSE " "

\* C26: every access-token request authenticates with HTTP Basic built from
\* the client credentials (id:secret) of the CredentialsPair and sends the
\* user credentials as the form fields username and password, together with
\* grant_type=password and scope = the scopes joined by a single space.
C26_BasicIsClientAndFormIsUser ==
    query.pc # "none" =>
       \A i \in 1..Len(query.sent) :
          LET http == query.sent[i] IN
          /\ http.authorization.username = query.credentials.client_credentials.id
          /\ http.authorization.password = query.credentials.client_credentials.secret
          /\ { http.form[j][1] : j \in 1..Len(http.form) } =
                {"grant_type", "username", "password", "scope"}
          /\ FormField(http.form, "grant_type") = <<"password">>
          /\ FormField(http.form, "username") = <<query.credentials.user_credentials.id>>
          /\ FormField(http.form, "password") = <<query.credentials.user_credentials.secret>>
          /\ SpaceJoined(FormField(http.form, "scope"), query.scopes)

\* The positions of the dots of the string handed to from_str.
Dots == {i \in 1..Len(jwt.s) : jwt.s[i] = Dot}

\* The position of the n-th dot, and the end of the string if there is none.
DotAt(n) ==
    IF Cardinality(Dots) >= n
    THEN CHOOSE i \in Dots : Cardinality({j \in Dots : j < i}) = n - 1
    ELSE Len(jwt.s) + 1

\* The n-th segment of the string.
SegmentAt(n) ==
    SubSeq(jwt.s, IF n = 1 THEN 1 ELSE DotAt(n - 1) + 1, DotAt(n) - 1)

\* A segment that is the base64 encoding of the text of a JSON object.
IsObjectSegment(segment) ==
    /\ Len(segment) = 1
    /\ segment[1][1] = "base64"
    /\ segment[1][2][1] = "utf8"
    /\ segment[1][2][2][1] = "object"

\* The string with another third segment.
WithThirdSegment(signature) ==
    SubSeq(jwt.s, 1, DotAt(2)) \o signature \o SubSeq(jwt.s, DotAt(3), Len(jwt.s))

\* C27: JsonWebToken decoding succeeds only for strings that split on '.'
\* into exactly 3 segments whose first two are the base64 of JSON objects,
\* and then gives those objects as header and payload; the third segment is
\* not inspected: the result, success or error, is the same with any other
\* third segment.
C27_ThreeSegmentsAndSignatureNotInspected ==
    jwt.pc \in {"from_jwt_token", "done"} =>
       /\ jwt.jwt_token[1] = "Ok" =>
             /\ Cardinality(Dots) = 2
             /\ IsObjectSegment(SegmentAt(1))
             /\ IsObjectSegment(SegmentAt(2))
             /\ jwt.jwt_token[2].header = SegmentAt(1)[1][2][2][2]
             /\ jwt.jwt_token[2].payload = SegmentAt(2)[1][2][2][2]
       /\ Cardinality(Dots) >= 2 =>
             \A signature \in SampleSegments :
                JsonWebToken_from_str(WithThirdSegment(signature)) = jwt.jwt_token

\* C27 witness: the sample header and payload followed by a third segment
\* that is not even base64 decode to the JsonWebToken of the sample.
C27_Witness ==
    /\ jwt.pc = "from_jwt_token"
    /\ Cardinality(Dots) = 2
    /\ SegmentAt(3) = <<NotBase64>>
    /\ jwt.jwt_token = <<"Ok", JsonWebToken(SampleHeader, SamplePayload)>>

\* C27 witness of a failure: four segments, the first two as in the sample.
C27_WitnessFourSegments ==
    /\ jwt.pc = "done"
    /\ Cardinality(Dots) = 3
    /\ IsObjectSegment(SegmentAt(1))
    /\ IsObjectSegment(SegmentAt(2))
    /\ jwt.jwt_token[1] = "Err"

\* The key of the field an error message names: RegisteredHeader and
\* RegisteredClaim names stand for their keys.
KeyNamed(names) ==
    CASE names = "kid" -> "kid"
      [] names = "Algorithm" -> "alg"
      [] names = "Subject" -> "sub"
      [] names = "realm" -> "realm"
      [] names = "scopes" -> "scope"
      [] names = "Issuer" -> "iss"
      [] names = "ExpirationTime" -> "exp"
      [] names = "IssuedAt" -> "iat"
      [] OTHER -> ""

\* The field of the decoded JWT under a key.
JwtField(key) ==
    IF key \in HeaderKeys THEN jwt.jwt_token[2].header[key]
                          ELSE jwt.jwt_token[2].payload[key]

\* The field under a key is there and of the type Plan B asks for.
PresentWithRightType(key) ==
    LET v == JwtField(key) IN
    CASE key \in {"exp", "iat"} -> v[1] = "number"
      [] key = "scope" -> /\ v[1] = "array"
                          /\ \A i \in 1..Len(v[2]) : v[2][i][1] = "string"
      [] OTHER -> v[1] = "string"

\* C28: the PlanB projection of a decoded JWT succeeds only if kid, alg, sub,
\* realm, scope (array of strings), iss, exp and iat are all present with the
\* right type; when one of them is missing or wrongly typed the decode fails
\* with a single error that names a field that is missing or wrongly typed.
C28_ErrorNamesTheOffendingField ==
    (jwt.pc = "done" /\ jwt.jwt_token[1] = "Ok") =>
       /\ jwt.result[1] = "Ok" <=>
             \A key \in HeaderKeys \union PayloadKeys : PresentWithRightType(key)
       /\ jwt.result[1] = "Err" =>
             /\ KeyNamed(jwt.result[2].names) \in HeaderKeys \union PayloadKeys
             /\ ~PresentWithRightType(KeyNamed(jwt.result[2].names))

\* The result of the n-th call get_credentials_pair made on the provider.
CallResult(n) == credentials.calls[n][2]

\* C29: get_credentials_pair calls get_client_credentials and then
\* get_user_credentials and fails fast: when the client call fails the user
\* call is not made and the client error is returned unchanged, when only the
\* user call fails its error is returned unchanged, and a pair, made of the
\* two results, is returned only when both succeed.
C29_CredentialsPairFailsFast ==
    credentials.pc = "returned" =>
       /\ Len(credentials.calls) \in {1, 2}
       /\ credentials.calls[1][1] = "get_client_credentials"
       /\ CallResult(1)[1] = "Err" =>
             /\ Len(credentials.calls) = 1
             /\ credentials.result[1] = "Err"
             /\ credentials.result[2] = CallResult(1)[2]
       /\ CallResult(1)[1] = "Ok" =>
             /\ Len(credentials.calls) = 2
             /\ credentials.calls[2][1] = "get_user_credentials"
             /\ CallResult(2)[1] = "Err" =>
                   /\ credentials.result[1] = "Err"
                   /\ credentials.result[2] = CallResult(2)[2]
             /\ CallResult(2)[1] = "Ok" =>
                   /\ credentials.result[1] = "Ok"
                   /\ credentials.result[2].client_credentials = CallResult(1)[2]
                   /\ credentials.result[2].user_credentials = CallResult(2)[2]

\* C29 witness: the client call failed with an IoError, the user call was
\* not made although it would have succeeded, and that IoError is returned.
C29_Witness ==
    /\ credentials.pc = "returned"
    /\ credentials.calls =
          << <<"get_client_credentials",
               CredentialsError("IoError", "client.json not found")>> >>
    /\ get_user_credentials(credentials)[1] = "Ok"
    /\ credentials.result = CredentialsError("IoError", "client.json not found")

\* C29 witness of the user failure: the client call succeeded, the user call
\* failed with a DecodingError, which is returned.
C29_WitnessUserFails ==
    /\ credentials.pc = "returned"
    /\ Len(credentials.calls) = 2
    /\ CallResult(1)[1] = "Ok"
    /\ credentials.result = CredentialsError("DecodingError", "user.json")

\* C29 witness of the success: both calls succeeded and the pair is returned.
C29_WitnessPair ==
    /\ credentials.pc = "returned"
    /\ credentials.provider = "direct"
    /\ credentials.result =
          <<"Ok", CredentialsPair(Credentials("client_id", "client_secret"),
                                  Credentials("user_id", "user_secret"))>>

\* The results the tests of scale_time expect for now = 100 and later = 200,
\* by the tenths of the factor.
ExpectedScaled == [tenths \in {0, 3, 5, 7, 10} |->
                      CASE tenths = 0 -> 100
                        [] tenths = 3 -> 130
                        [] tenths = 5 -> 150
                        [] tenths = 7 -> 169
                        [] tenths = 10 -> 200]

\* C30: scale_time(now, later, factor) = now + trunc((later - now) * factor)
\* with the factor taken as the f32 value and the product cut off toward
\* zero, not rounded: for now = 100, later = 200 and the factors 0.0, 0.3,
\* 0.5, 0.7, 1.0 the results are exactly 100, 130, 150, 169, 200.
C30_ScaleTimeTruncatesTheF32Product ==
    scaled.pc = "done" =>
       /\ LET product == (scaled.later - scaled.now) * scaled.factor.num IN
             IF product >= 0
             THEN scaled.result - scaled.now = product \div scaled.factor.den
             ELSE scaled.now - scaled.result = (-product) \div scaled.factor.den
       /\ (scaled.now = 100 /\ scaled.later = 200
              /\ scaled.tenths \in DOMAIN ExpectedScaled) =>
             scaled.result = ExpectedScaled[scaled.tenths]

\* C30 witness: scale_time(100, 200, 0.7f32) has returned 169.
C30_Witness ==
    /\ scaled.pc = "done"
    /\ scaled.now = 100
    /\ scaled.later = 200
    /\ scaled.tenths = 7
    /\ scaled.factor = [num |-> 11744051, den |-> 16777216]
    /\ scaled.result = 169

\* C30 witness of a negative product: scale_time(200, 100, 0.3f32) is 170, the
\* product -30.000001 cut off toward zero.
C30_WitnessNegative ==
    /\ scaled.pc = "done"
    /\ scaled.now = 200
    /\ scaled.later = 100
    /\ scaled.tenths = 3
    /\ scaled.result = 170

\* C31: a successful refresh at now_utc with the access token (token,
\* valid_until) leaves the slot with token = Some(token), valid_until = the
\* access token's valid_until, update_latest = scale_time(now_utc, valid_until,
\* refresh threshold), warn_after = scale_time(now_utc, valid_until, warning
\* threshold), and token_name and scopes as they were; now = 100, 0.6f32,
\* 0.8f32 and valid_until = 200 give 160, 180 and 200.
C31_SuccessfulRefreshSetsTheSlot ==
    (token_update.pc = "returned" /\ token_update.mock[1] = "Ok") =>
       LET td == token_update.token_data
           access_token == token_update.mock[2]
           now_utc == token_update.now_utc
       IN /\ token_update.result = <<"Ok", now_utc>>
          /\ td.token # None
          /\ td.token = access_token.token
          /\ td.valid_until = access_token.valid_until
          /\ td.update_latest =
                scale_time(now_utc, access_token.valid_until,
                           token_update.refresh_percentage_threshold)
          /\ td.warn_after =
                scale_time(now_utc, access_token.valid_until,
                           token_update.warning_percentage_threshold)
          /\ td.token_name = token_update.before.token_name
          /\ td.scopes = token_update.before.scopes
          /\ (/\ now_utc = 100
              /\ access_token.valid_until = 200
              /\ token_update.refresh_percentage_threshold =
                    [num |-> 10066330, den |-> 16777216]
              /\ token_update.warning_percentage_threshold =
                    [num |-> 13421773, den |-> 16777216]) =>
                (td.update_latest = 160 /\ td.warn_after = 180
                    /\ td.valid_until = 200)

\* C31 witness: the call of the test has returned: sample_token_data, now =
\* 100, thresholds 0.6f32 and 0.8f32, valid_until_utc = 200, and the slot is
\* the `expected` of the test.
C31_Witness ==
    /\ token_update.pc = "returned"
    /\ token_update.before = SampleTokenData
    /\ token_update.now_utc = 100
    /\ token_update.refresh_percentage_threshold = [num |-> 10066330, den |-> 16777216]
    /\ token_update.warning_percentage_threshold = [num |-> 13421773, den |-> 16777216]
    /\ token_update.token_data =
          [token_name |-> "token_data", token |-> 1, update_latest |-> 160,
           valid_until |-> 200, warn_after |-> 180, scopes |-> {"sc"}]

\* C32: when the access-token provider fails, update_token_data returns Err
\* and the slot is, during the call and after it, exactly what it was before
\* the call.
C32_FailedRefreshLeavesTheSlot ==
    (token_update.pc # "none" /\ token_update.mock[1] = "Err") =>
       /\ token_update.token_data = token_update.before
       /\ token_update.pc = "returned" => token_update.result[1] = "Err"

\* C32 witness: the provider failed at each of the three attempts, the call
\* has returned Err, and the slot still holds the token of the earlier refresh.
C32_Witness ==
    /\ token_update.pc = "returned"
    /\ token_update.mock[1] = "Err"
    /\ token_update.provider_calls = 3
    /\ token_update.result[1] = "Err"
    /\ token_update.before = RefreshedTokenData
    /\ token_update.token_data = RefreshedTokenData

\* C35 as claimed: whatever the thresholds are, after a refresh at now_utc
\* with an access token that is not expired, update_latest and warn_after lie
\* between now_utc and valid_until.
C35_DeadlinesClampedBetweenNowAndValidUntil ==
    (/\ token_update.pc = "returned"
     /\ token_update.mock[1] = "Ok"
     /\ token_update.mock[2].valid_until >= token_update.now_utc) =>
       LET td == token_update.token_data
       IN /\ token_update.now_utc <= td.update_latest
          /\ td.update_latest <= td.valid_until
          /\ token_update.now_utc <= td.warn_after
          /\ td.warn_after <= td.valid_until

\* The time at which the loop thread was spawned and ran initialize.
StartTime == 0

\* C33: once the loop has started there is one slot per managed token, in the
\* order of the configuration; a slot that was never refreshed has token =
\* None and update_latest = warn_after = valid_until = the start time; and no
\* iteration that got credentials passes over such a slot as not due, so the
\* first of them attempts a refresh of every managed token.
C33_SlotsStartDueAtTheStartTime ==
    pc # "spawned" =>
       /\ Len(managed_token_data) = Len(conf.managed_tokens)
       /\ \A i \in 1..Len(managed_token_data) :
             LET td == managed_token_data[i]
             IN /\ td.token_name = conf.managed_tokens[i].name
                /\ td.scopes = conf.managed_tokens[i].scopes
                /\ td.token = None =>
                      /\ td.update_latest = StartTime
                      /\ td.warn_after = StartTime
                      /\ td.valid_until = StartTime
                      /\ outcome[td.token_name][1] # "not_due"
                      /\ (pc = "for_token" /\ idx = i) => TokenDue

\* C33 witness: after a credentials failure, the first iteration that got
\* credentials (nothing was published before it) has attempted the refresh of
\* both managed tokens, one second after the start.
C33_Witness ==
    /\ pc = "publish"
    /\ cred_failures = 1
    /\ now > StartTime
    /\ manager_state = <<>>
    /\ \A n \in Names : outcome[n][1] \in {"ok", "fail_expired"}

\* The smallest update_latest of the slots.
EarliestUpdateLatest ==
    CHOOSE u \in {td.update_latest : td \in Slots} :
        \A td \in Slots : u <= td.update_latest

\* C34 as claimed: at the end of the token pass of an iteration that got
\* credentials, next_update_at = min(now + 10800, the smallest update_latest
\* of the managed tokens after the refreshes of the iteration).
C34_NextUpdateAtIsEarliestUpdateLatestOrThreeHours ==
    pc = "publish" =>
       next_update_at = (IF now + 10800 <= EarliestUpdateLatest
                         THEN now + 10800
                         ELSE EarliestUpdateLatest)

\* C38: the loop never stages or publishes Err(NoToken): a slot whose refresh
\* succeeded holds Some(token), so what a successful refresh stages is
\* Ok(token), and every staged result and every entry of the map is Ok(token)
\* or Err(RequestError).
C38_LoopNeverPublishesNoToken ==
    /\ \A td \in Slots :
          outcome[td.token_name][1] = "ok" =>
             /\ td.token # None
             /\ StagedOnSuccess(td) = <<td.token_name, OkResult(td.token)>>
    /\ \A u \in Staged : IsOk(u[2]) \/ IsRequestError(u[2])
    /\ \A n \in DOMAIN manager_state :
          IsOk(manager_state[n]) \/ IsRequestError(manager_state[n])

\* C38 witness: an iteration has staged Ok(token) for one name and
\* Err(RequestError) for the other and has written both to the map.
C38_Witness ==
    /\ pc = "insert"
    /\ applied = Len(token_states_to_update)
    /\ \E u \in Staged : IsOk(u[2])
    /\ \E u \in Staged : IsRequestError(u[2])
    /\ \E n \in DOMAIN manager_state : IsOk(manager_state[n])
    /\ \E n \in DOMAIN manager_state : IsRequestError(manager_state[n])

\* The credentials provider has given out; token `token` is what slot i holds
\* and what is published for its name, and it has expired.
ExpiredTokenPublished(i, token) ==
    /\ cred_failures > 0
    /\ i <= Len(managed_token_data)
    /\ managed_token_data[i].token = token
    /\ Published(managed_token_data[i].token_name) = OkResult(token)
    /\ managed_token_data[i].valid_until <= clock

\* C36 as claimed, for a credentials provider that keeps failing: once a
\* published token has expired, get_token for its name eventually stops
\* returning it: the entry becomes an error.
C36_ExpiredTokenIsEventuallyWithdrawn ==
    \A i \in 1..2, token \in 1..MaxCalls :
        [](ExpiredTokenPublished(i, token)
           => <>( /\ i <= Len(managed_token_data)
                  /\ Published(managed_token_data[i].token_name) # OkResult(token) ))

\* C37 as claimed: CredentialsProvider<C, U> answers get_client_credentials
\* with what its client provider C returns and get_user_credentials with what
\* its user provider U returns, so the pair it builds holds the client's
\* credentials as client_credentials and the user's as user_credentials.
C37_CompositeProviderKeepsClientAndUserApart ==
    (credentials.pc # "none" /\ credentials.provider = "CredentialsProvider") =>
       /\ \A k \in 1..Len(credentials.calls) :
             credentials.calls[k][2] =
                IF credentials.calls[k][1] = "get_client_credentials"
                THEN credentials.client_source
                ELSE credentials.user_source
       /\ (credentials.pc = "returned" /\ credentials.result[1] = "Ok") =>
             /\ credentials.result[2].client_credentials = credentials.client_source[2]
             /\ credentials.result[2].user_credentials = credentials.user_source[2]

\* The request got an HTTP response, of whatever status.
IsAnswered(r) == r[2][1] = "Response"

\* C39: in authenticate the fallback URL is contacted only when no request to
\* the primary URL was answered with an HTTP response; a response, whatever
\* its status, is the last request of the call, and the call's result is made
\* from it (a user or TokenInfoUnparsable for a 200, NotAuthenticated for any
\* other status) without a request to the fallback URL.
C39_AnyPrimaryResponseEndsTheQuerying ==
    token_info.pc # "none" =>
       /\ \A i \in 1..Len(token_info.requests) :
             IsAnswered(token_info.requests[i]) =>
                /\ i = Len(token_info.requests)
                /\ token_info.pc \in {"authenticate", "returned"}
                /\ token_info.response = token_info.requests[i][2]
       /\ (Len(FallbackRequests) > 0 \/ token_info.url = "fallback") =>
             \A i \in 1..Len(PrimaryRequests) : ~IsAnswered(PrimaryRequests[i])
       /\ (/\ token_info.pc = "returned"
           /\ \E i \in 1..Len(PrimaryRequests) : IsAnswered(PrimaryRequests[i])) =>
             /\ Len(FallbackRequests) = 0
             /\ IF token_info.response[2] = 200
                THEN token_info.result[1] \in {"Ok", TokenInfoUnparsable[1]}
                ELSE token_info.result = NotAuthenticated

\* C39 witness: with a fallback configured, the first request to the primary
\* URL met an IO error and the second was answered 500: the call returned
\* NotAuthenticated and the fallback URL was not contacted.
C39_Witness ==
    /\ token_info.pc = "returned"
    /\ token_info.has_fallback
    /\ Len(PrimaryRequests) = 2
    /\ PrimaryRequests[1][2] = IoError
    /\ PrimaryRequests[2][2] = <<"Response", 500, NoJsonObject>>
    /\ Len(FallbackRequests) = 0
    /\ token_info.result = NotAuthenticated

\* C40 as claimed: get_header(Custom(k)) right after add_header(Custom(k), v)
\* returns v, get_payload(Custom(k)) right after add_payload(Custom(k), v)
\* returns v, and what get_header returns for a custom key is what the header
\* map holds for it, whatever the payload map holds.
C40_CustomFieldsAreReadWhereTheyWereAdded ==
    (jwt.pc = "got" /\ jwt.got[2][1] = "Custom") =>
       /\ (jwt.got[1] = "get_header"
              /\ jwt.last_add[1] = "add_header" /\ jwt.last_add[2] = jwt.got[2]) =>
             jwt.got[3] = jwt.last_add[3]
       /\ (jwt.got[1] = "get_payload"
              /\ jwt.last_add[1] = "add_payload" /\ jwt.last_add[2] = jwt.got[2]) =>
             jwt.got[3] = jwt.last_add[3]
       /\ jwt.got[1] = "get_header" =>
             jwt.got[3] = jwt.jwt_token.header[jwt.got[2][2]]

====
